---- MODULE Spec2Model ----
(***************************************************************************)
(* Orchestration core of the document assistant:                          *)
(*   - the tool-calling agent loop (app/agent_simple.py) and its           *)
(*     streaming wrapper,                                                  *)
(*   - the research and chat LangGraph workflows (app/graph_workflows.py), *)
(*   - two chat requests that differ only in the analysis' web flag,       *)
(*   - agent requests interleaved on the shared SimpleAgentService,        *)
(*   - the lazily constructed module globals and their accessors,          *)
(*   - the SSE routes in front of run_agent_stream (app/api/agent_routes)  *)
(*     and of the research workflow (app/api/graph_routes).                *)
(*                                                                         *)
(* Text is modelled as a sequence of one-character strings, so that the    *)
(* marker tests, the two regular expressions, strip() and split() of the   *)
(* source are computed, not assumed.  Python's None is NoneStr for an      *)
(* optional string and the empty sequence for an optional dict.            *)
(***************************************************************************)
EXTENDS Naturals, Sequences, FiniteSets, TLC

VARIABLES
    \* ---- one agent request (run_agent / run_agent_stream) ----
    mode,             \* "none" | "direct" | "stream": how run_agent was entered
    pc,               \* position inside run_agent
    query,            \* run_agent argument
    chat_history,     \* run_agent argument
    max_iterations,   \* run_agent argument
    messages,         \* local: the conversation sent to the Gateway
    tool_usage,       \* local: the records of the dispatched tools
    iteration,        \* local: loop counter
    current_response, \* local: last Gateway response text
    tool_name,        \* local: parsed tool name of the pending dispatch
    tool_input,       \* local: parsed tool input of the pending dispatch
    result,           \* the dict run_agent returned (valid when pc = "returned")
    spc,              \* position inside run_agent_stream
    sidx,             \* run_agent_stream: index of the next tool / character
    events,           \* the events run_agent_stream has yielded so far
    \* ---- history of the agent request (observations, not program state) ----
    gateway_calls,    \* number of llm.ainvoke calls issued
    tool_calls,       \* number of tool.func calls issued
    responses,        \* the Gateway responses received, in order
    raised,           \* the messages of the exceptions raised, in order
    \* ---- one workflow request (research or chat graph) ----
    wf,               \* "none" | "research" | "chat": the graph that is running
    node,             \* the node to execute next, "END", or "RAISED"
    state,            \* the ResearchState threaded through the research graph
    cstate,           \* the ChatState threaded through the chat graph
    \* ---- history of the workflow request ----
    trace,            \* the nodes entered, in order
    failed,           \* the nodes in which a collaborator raised
    propagated,       \* str(e) of the exception that left the run, or NoneStr
    calls,            \* number of calls made to each collaborator
    gateway_input,    \* the message list of the last llm.invoke
    \* ---- two chat requests compared with each other ----
    pair,             \* the two runs, each with its state, node and history
    \* ---- concurrent agent requests on the shared SimpleAgentService ----
    runs,             \* per request: position, arguments, answers received, result
    frames,           \* per call frame: the locals of run_agent
    \* ---- the lazily constructed module globals and their callers ----
    registry,         \* per accessor: the global it caches (0 is None)
    built,            \* per accessor: how many objects were constructed
    threads,          \* per thread: position in the accessor it is calling
    handed,           \* per accessor: the instances returned to callers so far
    \* ---- the SSE route in front of run_agent_stream ----
    sse,              \* position, locals and the events sent to the client
    \* ---- the SSE route in front of the research workflow ----
    rstream           \* position, the events sent, what the first execution did

agentVars == <<mode, pc, query, chat_history, max_iterations, messages,
               tool_usage, iteration, current_response, tool_name, tool_input,
               result, spc, sidx, events, gateway_calls, tool_calls,
               responses, raised>>

wfVars == <<wf, node, state, cstate, trace, failed, propagated, calls,
            gateway_input>>

\* the state of the requests that are observed together
\* the state of the two streaming routes
routeVars == <<sse, rstream>>

extVars == <<pair, runs, frames, registry, built, threads, handed, routeVars>>

vars == <<agentVars, wfVars, extVars>>

-----------------------------------------------------------------------------
(* Bounds of the model *)

\* largest max_iterations a direct caller passes
MaxIterations == 3

\* the largest number of tool calls of one run whose collaborator raises
MaxToolFailures == 1

-----------------------------------------------------------------------------
(* Text helpers: Python str operations on sequences of characters *)

NoneStr == <<"None">>

Min(S) == CHOOSE x \in S : \A y \in S : x <= y

UpperLetters == {"A","B","C","D","E","F","G","H","I","J","K","L","M",
                 "N","O","P","Q","R","S","T","U","V","W","X","Y","Z"}
LowerLetters == {"a","b","c","d","e","f","g","h","i","j","k","l","m",
                 "n","o","p","q","r","s","t","u","v","w","x","y","z"}
Digits == {"0","1","2","3","4","5","6","7","8","9"}

\* regex class \s and str.strip() whitespace
IsSpace(c) == c \in {" ", "\n", "\t", "\r"}
\* regex class \w
IsWord(c) == c \in UpperLetters \cup LowerLetters \cup Digits \cup {"_"}

\* sub occurs in s at (1-based) position i
HasAt(s, sub, i) ==
    /\ i >= 1
    /\ i + Len(sub) - 1 <= Len(s)
    /\ \A j \in 1..Len(sub) : s[i + j - 1] = sub[j]

Occurrences(s, sub) == {i \in 1..Len(s) : HasAt(s, sub, i)}

\* Python: sub in s  (sub non-empty)
Contains(s, sub) == Occurrences(s, sub) # {}

\* Python: s.strip()
Strip(s) ==
    LET keep == {i \in 1..Len(s) : ~IsSpace(s[i])}
    IN  IF keep = {} THEN <<>>
        ELSE LET lo == Min(keep)
                 hi == CHOOSE i \in keep : \A j \in keep : j <= i
             IN  SubSeq(s, lo, hi)

\* Python: s[:n]
Prefix(s, n) == IF Len(s) <= n THEN s ELSE SubSeq(s, 1, n)

\* Python: s.split(sep, 1)[1]  (sep occurs in s)
AfterFirst(s, sep) ==
    LET i == Min(Occurrences(s, sep))
    IN  SubSeq(s, i + Len(sep), Len(s))

\* first position >= j that is not whitespace (Len(s)+1 when there is none)
SkipSpace(s, j) ==
    CHOOSE k \in j..(Len(s) + 1) :
        /\ k = Len(s) + 1 \/ ~IsSpace(s[k])
        /\ \A m \in j..(k - 1) : IsSpace(s[m])
\* first position >= j that is not a word character
SkipWord(s, j) ==
    CHOOSE k \in j..(Len(s) + 1) :
        /\ k = Len(s) + 1 \/ ~IsWord(s[k])
        /\ \A m \in j..(k - 1) : IsWord(s[m])

TOOL_MARK == <<"T","O","O","L",":">>
INPUT_MARK == <<"I","N","P","U","T",":">>
ANSWER_MARK == <<"A","N","S","W","E","R",":">>

\* re.search(r'TOOL:\s*(\w+)', s): the positions where the pattern matches
ToolMatchAt(s) ==
    {i \in Occurrences(s, TOOL_MARK) :
        LET k == SkipSpace(s, i + Len(TOOL_MARK))
        IN  k <= Len(s) /\ IsWord(s[k])}

\* tool_match: [found, group] of the leftmost match; \w+ is greedy
tool_match(s) ==
    LET at == ToolMatchAt(s)
    IN  IF at = {} THEN [found |-> FALSE, group |-> <<>>]
        ELSE LET i == Min(at)
                 k == SkipSpace(s, i + Len(TOOL_MARK))
             IN  [found |-> TRUE, group |-> SubSeq(s, k, SkipWord(s, k) - 1)]

\* re.search(r'INPUT:\s*(.+?)(?=\n|$)', s, re.DOTALL): the pattern matches at
\* an occurrence of INPUT: exactly when a character follows it (greedy \s* gives
\* back one whitespace character to .+? when the whitespace runs to the end)
InputMatchAt(s) ==
    {i \in Occurrences(s, INPUT_MARK) : i + Len(INPUT_MARK) <= Len(s)}

\* input_match: [found, group] of the leftmost match; .+? is lazy and stops
\* before the first newline that follows its first character, or at the end
input_match(s) ==
    LET at == InputMatchAt(s)
    IN  IF at = {} THEN [found |-> FALSE, group |-> <<>>]
        ELSE LET i == Min(at)
                 w == SkipSpace(s, i + Len(INPUT_MARK))
                 k == IF w <= Len(s) THEN w ELSE Len(s)
                 e == CHOOSE m \in k..Len(s) :
                          /\ m = Len(s) \/ s[m + 1] = "\n"
                          /\ \A n \in k..(m - 1) : s[n + 1] # "\n"
             IN  [found |-> TRUE, group |-> SubSeq(s, k, e)]

-----------------------------------------------------------------------------
(* The collaborators of the agent loop: inputs drawn from small sets *)

\* get_all_tools(): the names of the four registered tools, tool_map's keys
tool_map == { <<"C","a","l","c","u","l","a","t","o","r">>,
              <<"W","e","b","S","e","a","r","c","h">>,
              <<"D","o","c","u","m","e","n","t","S","e","a","r","c","h">>,
              <<"L","i","s","t","D","o","c","u","m","e","n","t","s">> }

\* the system prompt of run_agent, one opaque character
system_prompt == <<"<system prompt>">>

\* "hi"
RespPlain == <<"h","i">>
\* "ANSWER: 42"
RespAnswer == <<"A","N","S","W","E","R",":"," ","4","2">>
\* "TOOL: Calculator\nINPUT: 2+2"
RespCalc == <<"T","O","O","L",":"," ","C","a","l","c","u","l","a","t","o","r","\n",
              "I","N","P","U","T",":"," ","2","+","2">>
\* "TOOL: WebSearch\nINPUT: ai\nANSWER: ok"
RespWebAnswer == <<"T","O","O","L",":"," ","W","e","b","S","e","a","r","c","h","\n",
                   "I","N","P","U","T",":"," ","a","i","\n",
                   "A","N","S","W","E","R",":"," ","o","k">>
\* "TOOL: Bogus\nINPUT: x"
RespBogus == <<"T","O","O","L",":"," ","B","o","g","u","s","\n",
               "I","N","P","U","T",":"," ","x">>
\* "TOOL: Bogus INPUT: x ANSWER: no "
RespBogusAnswer == <<"T","O","O","L",":"," ","B","o","g","u","s"," ",
                     "I","N","P","U","T",":"," ","x"," ",
                     "A","N","S","W","E","R",":"," ","n","o"," ">>
\* "TOOL: Calculator"             (no INPUT: marker)
RespToolOnly == <<"T","O","O","L",":"," ","C","a","l","c","u","l","a","t","o","r">>
\* "INPUT: 1 TOOL:"               (both markers, no tool name)
RespNoToolName == <<"I","N","P","U","T",":"," ","1"," ","T","O","O","L",":">>
\* "TOOL: WebSearch INPUT:"       (both markers, no input text)
RespNoInput == <<"T","O","O","L",":"," ","W","e","b","S","e","a","r","c","h"," ",
                 "I","N","P","U","T",":">>
\* "INPUT: \nTOOL:ListDocuments"  (markers in the other order)
RespReversed == <<"I","N","P","U","T",":"," ","\n",
                  "T","O","O","L",":","L","i","s","t","D","o","c","u","m","e","n","t","s">>

\* what the Gateway may answer
GatewayResponses == {RespPlain, RespAnswer, RespCalc, RespWebAnswer, RespBogus,
                     RespBogusAnswer, RespToolOnly, RespNoToolName, RespNoInput,
                     RespReversed}

\* str(e) of the exceptions a collaborator may raise: "boom"
ExceptionMessages == { <<"b","o","o","m">> }

\* what tool.func may return: "4"
ToolResults == { <<"4">> }

\* the queries and histories a caller passes
AgentQueries == { <<"q">> }
ChatHistories ==
    { <<>>,
      << [role |-> "user", content |-> <<"u">>],
         [role |-> "system", content |-> <<"s">>],
         [role |-> "assistant", content |-> <<"a">>] >> }

-----------------------------------------------------------------------------
(* run_agent (app/agent_simple.py) *)

\* default of the max_iterations parameter
DefaultMaxIterations == 5
\* the observation of a ToolInvocationRecord keeps this many characters
ObservationLimit == 500

HumanMessage(c) == [role |-> "human", content |-> c]
AIMessage(c) == [role |-> "ai", content |-> c]
SystemMessage(c) == [role |-> "system", content |-> c]

\* _format_chat_history: user and assistant turns, in order; other roles dropped
RECURSIVE _format_chat_history(_)
_format_chat_history(h) ==
    IF h = <<>> THEN <<>>
    ELSE LET msg == Head(h)
             rest == _format_chat_history(Tail(h))
         IN  IF msg.role = "user" THEN <<HumanMessage(msg.content)>> \o rest
             ELSE IF msg.role = "assistant" THEN <<AIMessage(msg.content)>> \o rest
             ELSE rest

\* every turn of the history is converted, whatever its role
InitialMessagesAllTurns(q, h) ==
    <<SystemMessage(system_prompt)>>
    \o [i \in 1..Len(h) |->
           [role |-> IF h[i].role = "user" THEN "human"
                     ELSE IF h[i].role = "assistant" THEN "ai" ELSE h[i].role,
            content |-> h[i].content]]
    \o <<HumanMessage(q)>>

\* the conversation built before the loop
InitialMessages(q, h) ==
    <<SystemMessage(system_prompt)>> \o _format_chat_history(h) \o <<HumanMessage(q)>>

\* the loop runs once more after the budget is spent
LoopGuardOffByOne == iteration <= max_iterations

\* the body runs once before the condition is first tested
LoopGuardAtLeastOnce == iteration < max_iterations \/ iteration = 0

\* the while condition
LoopGuard == iteration < max_iterations

\* the response asks for a tool with syntax the two patterns accept
ToolRequested(r) ==
    /\ Contains(r, TOOL_MARK) /\ Contains(r, INPUT_MARK)
    /\ tool_match(r).found /\ input_match(r).found

ParsedToolName(r) == Strip(tool_match(r).group)
ParsedToolInput(r) == Strip(input_match(r).group)

\* a tool is dispatched only while another Gateway call can follow
DispatchesWithinBudget(r) ==
    /\ ToolRequested(r) /\ ParsedToolName(r) \in tool_map
    /\ iteration < max_iterations

\* the registry is not consulted
DispatchesAnyName(r) == ToolRequested(r)

\* a response that holds an ANSWER: marker is taken as the final answer
DispatchesUnlessAnswer(r) ==
    /\ ToolRequested(r) /\ ParsedToolName(r) \in tool_map
    /\ ~Contains(r, ANSWER_MARK)

\* the tool is dispatched: requested and in tool_map
Dispatches(r) == ToolRequested(r) /\ ParsedToolName(r) \in tool_map

\* the text after the marker is kept with its surrounding whitespace
FinalAnswerUnstripped(r) ==
    IF Contains(r, ANSWER_MARK) THEN AfterFirst(r, ANSWER_MARK) ELSE r

\* "Extract final answer"
final_answer(r) ==
    IF Contains(r, ANSWER_MARK) THEN Strip(AfterFirst(r, ANSWER_MARK)) ELSE r

NoResult == [output |-> <<>>, tool_usage |-> <<>>, success |-> FALSE, error |-> NoneStr]

\* the dict returned at the end of the try block, from the locals
SuccessResultOf(response, usage) ==
    [output |-> final_answer(response),
     tool_usage |-> usage,
     success |-> TRUE,
     error |-> NoneStr]

SuccessResult == SuccessResultOf(current_response, tool_usage)

ApologyPrefix == <<"I"," ","e","n","c","o","u","n","t","e","r","e","d"," ",
                   "a","n"," ","e","r","r","o","r",":"," ">>

\* the partial tool history is reported with the failure
ErrorResultKeepsTools(msg) == [output |-> ApologyPrefix \o msg,
                               tool_usage |-> tool_usage,
                               success |-> FALSE,
                               error |-> msg]

\* the dict returned by the except block
ErrorResult(msg) == [output |-> ApologyPrefix \o msg,
                     tool_usage |-> <<>>,
                     success |-> FALSE,
                     error |-> msg]

ToolResultPrefix == <<"T","o","o","l"," ","r","e","s","u","l","t",":"," ">>
ToolResultSuffix == <<"\n","\n","N","o","w"," ","p","r","o","v","i","d","e"," ",
                      "y","o","u","r"," ","f","i","n","a","l"," ",
                      "a","n","s","w","e","r",".">>

ToolRecord(name, input, tool_result) ==
    [tool |-> name, tool_input |-> input,
     observation |-> Prefix(tool_result, ObservationLimit)]

streamVars == <<spc, sidx, events>>

\* entry of run_agent up to the loop: locals initialised, conversation built
EnterRunAgent(q, h, n) ==
    /\ pc' = "while"
    /\ query' = q /\ chat_history' = h /\ max_iterations' = n
    /\ tool_usage' = <<>>
    /\ iteration' = 0
    /\ messages' = InitialMessages(q, h)
    /\ current_response' = <<>>
    /\ UNCHANGED <<tool_name, tool_input, result, gateway_calls, tool_calls,
                   responses, raised>>

\* a caller awaits run_agent(query, chat_history, request_id, max_iterations)
RunAgent ==
    /\ mode = "none"
    /\ mode' = "direct"
    /\ \E q \in AgentQueries, h \in ChatHistories, n \in 0..MaxIterations :
           EnterRunAgent(q, h, n)
    /\ UNCHANGED streamVars
    /\ UNCHANGED <<wfVars, extVars>>

\* while iteration < max_iterations: iteration += 1; await llm.ainvoke(messages)
GatewayCall ==
    /\ pc = "while" /\ LoopGuard
    /\ iteration' = iteration + 1
    /\ gateway_calls' = gateway_calls + 1
    /\ pc' = "await_llm"
    /\ UNCHANGED <<mode, query, chat_history, max_iterations, messages, tool_usage,
                   current_response, tool_name, tool_input, result, tool_calls,
                   responses, raised, streamVars>>
    /\ UNCHANGED <<wfVars, extVars>>

\* the loop condition is false: control leaves the loop
LoopExhausted ==
    /\ pc = "while" /\ ~LoopGuard
    /\ pc' = "extract"
    /\ UNCHANGED <<mode, query, chat_history, max_iterations, messages, tool_usage,
                   iteration, current_response, tool_name, tool_input, result,
                   gateway_calls, tool_calls, responses, raised, streamVars>>
    /\ UNCHANGED <<wfVars, extVars>>

\* the Gateway answers: the response is parsed; a registered tool is about to be
\* called, anything else breaks out of the loop
GatewayReturn ==
    /\ pc = "await_llm"
    /\ \E r \in GatewayResponses :
          /\ current_response' = r
          /\ responses' = Append(responses, r)
          /\ IF Dispatches(r)
             THEN /\ tool_name' = ParsedToolName(r)
                  /\ tool_input' = ParsedToolInput(r)
                  /\ tool_calls' = tool_calls + 1
                  /\ pc' = "tool"
             ELSE /\ pc' = "extract"
                  /\ UNCHANGED <<tool_name, tool_input, tool_calls>>
    /\ UNCHANGED <<mode, query, chat_history, max_iterations, messages, tool_usage,
                   iteration, result, gateway_calls, raised, streamVars>>
    /\ UNCHANGED <<wfVars, extVars>>

\* the Gateway raises: the except block builds the result
GatewayRaise ==
    /\ pc = "await_llm"
    /\ \E msg \in ExceptionMessages :
          /\ raised' = Append(raised, msg)
          /\ result' = ErrorResult(msg)
    /\ pc' = "returned"
    /\ UNCHANGED <<mode, query, chat_history, max_iterations, messages, tool_usage,
                   iteration, current_response, tool_name, tool_input,
                   gateway_calls, tool_calls, responses, streamVars>>
    /\ UNCHANGED <<wfVars, extVars>>

\* the functions of the four tools (app/tools.py): each runs its collaborator
\* inside try/except Exception and returns the error text when it raises
ErrCalculating == <<"E","r","r","o","r"," ","c","a","l","c","u","l","a","t","i","n","g"," ","'">>
ErrSearchingFor == <<"E","r","r","o","r"," ","s","e","a","r","c","h","i","n","g"," ","f","o","r"," ","'">>
ErrSearchingDocuments == <<"E","r","r","o","r"," ","s","e","a","r","c","h","i","n","g"," ","d","o","c","u","m","e","n","t","s",":"," ">>
ErrListingDocuments == <<"E","r","r","o","r"," ","l","i","s","t","i","n","g"," ","d","o","c","u","m","e","n","t","s",":"," ">>
QuoteColon == <<"'",":"," ">>

\* what a tool function hands to its caller: a returned text or an exception
Returns(text) == [raises |-> FALSE, value |-> text]
Raises(msg) == [raises |-> TRUE, value |-> msg]

\* the tool functions have no except block
tool_func_uncaught(name, input, msg) == Raises(msg)

\* tool.func(tool_input) of the registered tool `name` when its collaborator
\* (the evaluator, the web search, Retrieval) raises an exception with str(e) = msg
tool_func_failing(name, input, msg) ==
    IF name = <<"C","a","l","c","u","l","a","t","o","r">>
    THEN Returns(ErrCalculating \o input \o QuoteColon \o msg)
    ELSE IF name = <<"W","e","b","S","e","a","r","c","h">>
    THEN Returns(ErrSearchingFor \o input \o QuoteColon \o msg)
    ELSE IF name = <<"D","o","c","u","m","e","n","t","S","e","a","r","c","h">>
    THEN Returns(ErrSearchingDocuments \o msg)
    ELSE Returns(ErrListingDocuments \o msg)

\* only the tool result is appended, not the model's request
ToolTurnsResultOnly(response, tool_result) ==
    << HumanMessage(ToolResultPrefix \o tool_result \o ToolResultSuffix) >>

\* the two turns appended after a dispatch
ToolTurns(response, tool_result) ==
    << AIMessage(response),
       HumanMessage(ToolResultPrefix \o tool_result \o ToolResultSuffix) >>

\* run_agent after tool.func returned tool_result: the record and the two
\* turns are appended, and the loop continues
Recorded(tool_result) ==
    /\ tool_usage' = Append(tool_usage,
                            ToolRecord(tool_name, tool_input, tool_result))
    /\ messages' = messages \o ToolTurns(current_response, tool_result)
    /\ pc' = "while"
    /\ UNCHANGED <<mode, query, chat_history, max_iterations, iteration,
                   current_response, tool_name, tool_input, result, gateway_calls,
                   tool_calls, responses, raised, streamVars>>

\* run_agent after tool.func raised: the except block builds the result
Aborted(msg) ==
    /\ raised' = Append(raised, msg)
    /\ result' = ErrorResult(msg)
    /\ pc' = "returned"
    /\ UNCHANGED <<mode, query, chat_history, max_iterations, messages, tool_usage,
                   iteration, current_response, tool_name, tool_input,
                   gateway_calls, tool_calls, responses, streamVars>>

\* tool.func returns the result of its collaborator
ToolReturn ==
    /\ pc = "tool"
    /\ \E tool_result \in ToolResults : Recorded(tool_result)
    /\ UNCHANGED <<wfVars, extVars>>

\* the records of this run that hold an error text of a tool
FailedRecords ==
    {i \in DOMAIN tool_usage :
        Prefix(tool_usage[i].observation, 6) = <<"E","r","r","o","r"," ">>}

\* the collaborator of the tool raises inside tool.func
ToolFails ==
    /\ pc = "tool"
    /\ Cardinality(FailedRecords) < MaxToolFailures
    /\ \E msg \in ExceptionMessages :
          LET outcome == tool_func_failing(tool_name, tool_input, msg)
          IN  IF outcome.raises THEN Aborted(outcome.value)
              ELSE Recorded(outcome.value)
    /\ UNCHANGED <<wfVars, extVars>>

\* after the loop: the final answer is extracted and the result returned
ReturnResult ==
    /\ pc = "extract"
    /\ result' = SuccessResult
    /\ pc' = "returned"
    /\ UNCHANGED <<mode, query, chat_history, max_iterations, messages, tool_usage,
                   iteration, current_response, tool_name, tool_input,
                   gateway_calls, tool_calls, responses, raised, streamVars>>
    /\ UNCHANGED <<wfVars, extVars>>

-----------------------------------------------------------------------------
(* run_agent_stream (app/agent_simple.py) *)

StartEvent == [type |-> "start", data |-> <<"Agent thinking...">>]
ToolStartEvent(t) == [type |-> "tool_start", data |-> [tool |-> t.tool, input |-> t.tool_input]]
ToolEndEvent(t) == [type |-> "tool_end", data |-> [tool |-> t.tool, output |-> t.observation]]
MessageEvent(char) == [type |-> "message", data |-> <<char>>]
\* [t["tool"] for t in result["tool_usage"]]
ToolNames(tu) == [i \in 1..Len(tu) |-> tu[i].tool]
DoneEvent(tu) == [type |-> "done", data |-> ToolNames(tu)]

agentLocals == <<pc, query, chat_history, max_iterations, messages, tool_usage,
                 iteration, current_response, tool_name, tool_input, result,
                 gateway_calls, tool_calls, responses, raised>>

\* where the generator continues once the tool events are out
AfterTools(res) == IF Len(res.output) > 0 THEN "message" ELSE "done"
\* the tool events are left out
AfterRunSkipsTools(res) == AfterTools(res)

\* where the generator continues once run_agent has returned
AfterRun(res) == IF Len(res.tool_usage) > 0 THEN "tool_start" ELSE AfterTools(res)

\* a caller iterates run_agent_stream(query, chat_history, request_id):
\* the start event is yielded
RunAgentStream ==
    /\ mode = "none"
    /\ mode' = "stream"
    /\ \E q \in AgentQueries, h \in ChatHistories :
           /\ query' = q /\ chat_history' = h
    /\ events' = <<StartEvent>>
    /\ spc' = "call"
    /\ UNCHANGED <<pc, max_iterations, messages, tool_usage, iteration,
                   current_response, tool_name, tool_input, result, sidx,
                   gateway_calls, tool_calls, responses, raised>>
    /\ UNCHANGED <<wfVars, extVars>>

\* result = await self.run_agent(query, chat_history, request_id): entered
\* with the default max_iterations
StreamCallsRunAgent ==
    /\ mode = "stream" /\ spc = "call"
    /\ EnterRunAgent(query, chat_history, DefaultMaxIterations)
    /\ spc' = "await_run"
    /\ UNCHANGED <<mode, sidx, events>>
    /\ UNCHANGED <<wfVars, extVars>>

\* run_agent has returned: the generator goes on to its next yield
StreamGetsResult ==
    /\ mode = "stream" /\ spc = "await_run" /\ pc = "returned"
    /\ spc' = AfterRun(result)
    /\ sidx' = 1
    /\ UNCHANGED <<mode, events, agentLocals>>
    /\ UNCHANGED <<wfVars, extVars>>

YieldToolStart ==
    /\ spc = "tool_start"
    /\ events' = Append(events, ToolStartEvent(result.tool_usage[sidx]))
    /\ spc' = "tool_end"
    /\ UNCHANGED <<mode, sidx, agentLocals>>
    /\ UNCHANGED <<wfVars, extVars>>

YieldToolEnd ==
    /\ spc = "tool_end"
    /\ events' = Append(events, ToolEndEvent(result.tool_usage[sidx]))
    /\ IF sidx < Len(result.tool_usage)
       THEN spc' = "tool_start" /\ sidx' = sidx + 1
       ELSE spc' = AfterTools(result) /\ sidx' = 1
    /\ UNCHANGED <<mode, agentLocals>>
    /\ UNCHANGED <<wfVars, extVars>>

\* for i, char in enumerate(output): one message event per character
YieldMessage ==
    /\ spc = "message"
    /\ events' = Append(events, MessageEvent(result.output[sidx]))
    /\ IF sidx < Len(result.output)
       THEN spc' = "message" /\ sidx' = sidx + 1
       ELSE spc' = "done" /\ sidx' = 1
    /\ UNCHANGED <<mode, agentLocals>>
    /\ UNCHANGED <<wfVars, extVars>>

YieldDone ==
    /\ spc = "done"
    /\ events' = Append(events, DoneEvent(result.tool_usage))
    /\ spc' = "closed"
    /\ UNCHANGED <<mode, sidx, agentLocals>>
    /\ UNCHANGED <<wfVars, extVars>>

-----------------------------------------------------------------------------
(* One agent request, direct or streamed *)

InitAgent ==
    /\ mode = "none"
    /\ pc = "idle"
    /\ query = <<>> /\ chat_history = <<>> /\ max_iterations = 0
    /\ messages = <<>> /\ tool_usage = <<>> /\ iteration = 0
    /\ current_response = <<>>
    /\ tool_name = <<>> /\ tool_input = <<>>
    /\ result = NoResult
    /\ spc = "idle" /\ sidx = 1 /\ events = <<>>
    /\ gateway_calls = 0 /\ tool_calls = 0
    /\ responses = <<>> /\ raised = <<>>

NextAgent ==
    \/ RunAgent
    \/ GatewayCall
    \/ LoopExhausted
    \/ GatewayReturn
    \/ GatewayRaise
    \/ ToolReturn
    \/ ToolFails
    \/ ReturnResult
    \/ RunAgentStream
    \/ StreamCallsRunAgent
    \/ StreamGetsResult
    \/ YieldToolStart
    \/ YieldToolEnd
    \/ YieldMessage
    \/ YieldDone

-----------------------------------------------------------------------------
(* Workflow state (app/graph_state.py) and the LangGraph channel update *)

WfCollaborators == {"gateway", "list_documents", "search", "web_search", "evaluate"}

\* a message as a node builds it: no id yet
WfMessage(role, content) == [id |-> 0, role |-> role, content |-> content]

MaxId(msgs) ==
    IF msgs = <<>> THEN 0
    ELSE CHOOSE n \in {msgs[i].id : i \in 1..Len(msgs)} :
             \A i \in 1..Len(msgs) : msgs[i].id <= n

\* the messages of an update with their ids: a message without id gets a
\* fresh one (a uuid in the library, here a number above every id in use)
WithIds(left, right) ==
    [i \in 1..Len(right) |->
        IF right[i].id = 0
        THEN [right[i] EXCEPT !.id =
                  i + (IF MaxId(left) >= MaxId(right) THEN MaxId(left) ELSE MaxId(right))]
        ELSE right[i]]

\* the message of the update carrying this id
UpdateFor(right, id) == right[CHOOSE j \in 1..Len(right) : right[j].id = id]

IsIn(msgs, id) == \E j \in 1..Len(msgs) : msgs[j].id = id

\* the merge of the reducer, for an update whose messages all have ids: a
\* message whose id is already in the channel replaces that message in place,
\* any other is appended
MergeById(left, right) ==
    [i \in 1..Len(left) |->
        IF IsIn(right, left[i].id) THEN UpdateFor(right, left[i].id) ELSE left[i]]
    \o SelectSeq(right, LAMBDA m : ~IsIn(left, m.id))

\* the reducer declared on the messages channel
add_messages(left, right) == MergeById(left, WithIds(left, right))

\* the graph writes a node's returned dict into the channels: messages goes
\* through its reducer, every other key is overwritten
ApplyUpdate(st, ret) == [ret EXCEPT !.messages = add_messages(st.messages, ret.messages)]

\* Python truthiness of an optional string / of a list or optional dict
TruthyStr(x) == x # NoneStr /\ x # <<>>
TruthySeq(x) == x # <<>>

UpperSeq == <<"A","B","C","D","E","F","G","H","I","J","K","L","M",
              "N","O","P","Q","R","S","T","U","V","W","X","Y","Z">>
LowerSeq == <<"a","b","c","d","e","f","g","h","i","j","k","l","m",
              "n","o","p","q","r","s","t","u","v","w","x","y","z">>

\* Python: s.lower()
Lower(s) ==
    [i \in 1..Len(s) |->
        IF s[i] \in UpperLetters
        THEN LowerSeq[CHOOSE k \in 1..26 : UpperSeq[k] = s[i]]
        ELSE s[i]]

\* Python: any(word in s for word in words)
AnyIn(words, s) == \E w \in words : Contains(s, w)

DigitChar == <<"0","1","2","3","4","5","6","7","8","9">>
\* Python: str(n) for a natural number
RECURSIVE NumStr(_)
NumStr(n) ==
    IF n < 10 THEN <<DigitChar[n + 1]>>
    ELSE NumStr(n \div 10) \o <<DigitChar[(n % 10) + 1]>>

\* "\n\n".join(parts)
RECURSIVE JoinBlank(_)
JoinBlank(parts) ==
    IF parts = <<>> THEN <<>>
    ELSE IF Len(parts) = 1 THEN parts[1]
    ELSE parts[1] \o <<"\n","\n">> \o JoinBlank(Tail(parts))

\* the initial state of both graphs before a request arrives
NoResearchState ==
    [query |-> <<>>, messages |-> <<>>, documents_found |-> <<>>,
     web_results |-> NoneStr, calculations |-> <<>>, research_plan |-> NoneStr,
     final_answer |-> NoneStr, iterations |-> 0, needs_approval |-> FALSE,
     approved |-> NoneStr, error |-> NoneStr]

NoChatState ==
    [messages |-> <<>>, current_query |-> <<>>, context |-> NoneStr,
     response |-> NoneStr, should_search_docs |-> FALSE, should_search_web |-> FALSE]

InitWorkflow ==
    /\ wf = "none"
    /\ node = "idle"
    /\ state = NoResearchState
    /\ cstate = NoChatState
    /\ trace = <<>>
    /\ failed = {}
    /\ propagated = NoneStr
    /\ calls = [c \in WfCollaborators |-> 0]
    /\ gateway_input = <<>>

\* no pair of chat requests is being compared
InitPair == pair = <<>>

\* the requests that may run concurrently
ConcRuns == 1..2

\* no concurrent agent request has been made
InitConcurrent ==
    /\ runs = [r \in ConcRuns |->
                 [pc |-> "idle", query |-> <<>>, chat_history |-> <<>>,
                  max_iterations |-> 0, inbox |-> <<>>, result |-> NoResult,
                  overlapped |-> FALSE]]
    /\ frames = [r \in ConcRuns |->
                   [messages |-> <<>>, tool_usage |-> <<>>, iteration |-> 0,
                    current_response |-> <<>>]]

\* the five lazy accessors
Accessors == {"get_llm_service", "get_vector_store_service", "get_agent_service",
              "get_research_workflow", "get_chat_workflow"}

\* the event loop, which runs the handlers and the agent loop one at a time,
\* and an executor thread that runs the steps of a workflow
Threads == {"loop", "worker"}

\* every global is None and no accessor is being called
InitAccessors ==
    /\ registry = [a \in Accessors |-> 0]
    /\ built = [a \in Accessors |-> 0]
    /\ threads = [t \in Threads |-> [pc |-> "idle", acc |-> "none", made |-> 0]]
    /\ handed = [a \in Accessors |-> {}]

\* no streaming agent request has been received
InitAgentRoute ==
    sse = [pc |-> "idle", taken |-> 0, tools_used |-> <<>>, full_response |-> <<>>,
           sent |-> <<>>]

\* no streaming research request has been received
InitResearchRoute ==
    rstream = [pc |-> "idle", sent |-> <<>>, first |-> <<>>]

Init ==
    /\ InitAgent /\ InitWorkflow /\ InitPair /\ InitConcurrent /\ InitAccessors
    /\ InitAgentRoute /\ InitResearchRoute

SpecAgent == Init /\ [][NextAgent]_vars

-----------------------------------------------------------------------------
(* Properties of the agent loop *)

\* the run has received a first Gateway response
HasFirstResponse == Len(responses) >= 1
FirstResponse == responses[1]

\* r holds both markers, both patterns match, and the named tool is registered
RequestsRegisteredTool(r) ==
    /\ Contains(r, TOOL_MARK) /\ Contains(r, INPUT_MARK)
    /\ tool_match(r).found /\ input_match(r).found
    /\ tool_match(r).group \in tool_map

\* r names a tool (a word follows a TOOL: marker) that is not registered
NamesUnregisteredTool(r) ==
    LET m == tool_match(r)
    IN  m.found /\ m.group \notin tool_map

\* the Gateway answers that name an unregistered tool
UnregisteredResponses == {r \in GatewayResponses : NamesUnregisteredTool(r)}

\* the reported output for a final text r: r itself, or what follows its first
\* ANSWER: marker, without the whitespace around it
ReportedOutput(r) ==
    IF Contains(r, ANSWER_MARK) THEN Strip(AfterFirst(r, ANSWER_MARK)) ELSE r

\* C1: for max_iterations >= 1, whatever the Gateway and the tools answer, a
\* run_agent execution never issues more than max_iterations Gateway calls.
C1_GatewayCallsBounded ==
    (pc # "idle" /\ max_iterations >= 1) => gateway_calls <= max_iterations

C1_Witness ==
    /\ mode = "direct" /\ pc = "returned"
    /\ max_iterations >= 2
    /\ gateway_calls = max_iterations

\* C2 as stated: with max_iterations = 1 and a first response that is a
\* well-formed request for a registered tool, the run makes one Gateway call
\* and returns the raw response, success = true and an empty tool_usage
\* (read for the runs in which nothing raises).
C2_ToolUsageEmptyAtBudget ==
    (pc = "returned" /\ max_iterations = 1 /\ HasFirstResponse
        /\ RequestsRegisteredTool(FirstResponse) /\ raised = <<>>)
    => /\ gateway_calls = 1
       /\ result.success
       /\ result.output = FirstResponse
       /\ result.tool_usage = <<>>

\* C2 amended: with max_iterations = 1 and a first response that is a
\* well-formed request for a registered tool, the run makes one Gateway call
\* and dispatches that tool once; when the tool returns, the run reports
\* success = true, exactly one record (that tool, the parsed input) and as
\* output the response text, or the stripped text after its first ANSWER:.
C2_ToolDispatchedAtBudget ==
    (pc = "returned" /\ max_iterations = 1 /\ HasFirstResponse
        /\ RequestsRegisteredTool(FirstResponse))
    => /\ gateway_calls = 1
       /\ tool_calls = 1
       /\ raised = <<>> =>
            /\ result.success
            /\ Len(result.tool_usage) = 1
            /\ result.tool_usage[1].tool = tool_match(FirstResponse).group
            /\ result.tool_usage[1].tool_input = Strip(input_match(FirstResponse).group)
            /\ result.output = ReportedOutput(FirstResponse)

C2_Witness ==
    /\ pc = "returned" /\ max_iterations = 1
    /\ responses = <<RespCalc>>
    /\ result.success
    /\ Len(result.tool_usage) = 1
    /\ result.output = RespCalc

\* the state of a run aborted by the exception with message raised[1]
AbortedResult ==
    /\ pc = "returned"
    /\ Len(raised) = 1
    /\ ~result.success
    /\ result.error = raised[1]
    /\ result.output = ApologyPrefix \o raised[1]
    /\ result.tool_usage = <<>>

\* C3: once the Gateway or a tool has raised, at any iteration, the run has
\* returned success = false, error = the exception message, output = the apology
\* embedding it and an empty tool_usage; and from then on no Gateway call and
\* no tool dispatch is made and the result does not change (no retry).
C3_ExceptionAbortsRun ==
    /\ [](raised # <<>> => AbortedResult)
    /\ [][raised # <<>> => /\ gateway_calls' = gateway_calls
                           /\ tool_calls' = tool_calls
                           /\ result' = result]_vars

\* the Gateway raises after a tool was dispatched and recorded
C3_Witness ==
    /\ raised # <<>> /\ pc = "returned"
    /\ tool_usage # <<>>
    /\ tool_calls = Len(tool_usage)
    /\ gateway_calls = Len(responses) + 1
    /\ result.tool_usage = <<>>

\* C4 as stated: when the first response lacks a TOOL: or an INPUT: marker the
\* run makes one Gateway call, invokes no tool and returns success = true, an
\* empty tool_usage and the response verbatim, or the text after its first
\* ANSWER: marker.
C4_NoToolAnswerVerbatim ==
    (pc = "returned" /\ HasFirstResponse
        /\ ~(Contains(FirstResponse, TOOL_MARK) /\ Contains(FirstResponse, INPUT_MARK)))
    => /\ gateway_calls = 1
       /\ tool_calls = 0
       /\ result.success
       /\ result.tool_usage = <<>>
       /\ result.output = IF Contains(FirstResponse, ANSWER_MARK)
                          THEN AfterFirst(FirstResponse, ANSWER_MARK)
                          ELSE FirstResponse

\* C4 amended: ... and the response verbatim, or the text after its first
\* ANSWER: marker with the leading and trailing whitespace removed.
C4_NoToolAnswerStripped ==
    (pc = "returned" /\ HasFirstResponse
        /\ ~(Contains(FirstResponse, TOOL_MARK) /\ Contains(FirstResponse, INPUT_MARK)))
    => /\ gateway_calls = 1
       /\ tool_calls = 0
       /\ result.success
       /\ result.tool_usage = <<>>
       /\ result.output = IF Contains(FirstResponse, ANSWER_MARK)
                          THEN Strip(AfterFirst(FirstResponse, ANSWER_MARK))
                          ELSE FirstResponse

C4_Witness ==
    /\ pc = "returned" /\ max_iterations >= 2
    /\ responses = <<RespAnswer>>
    /\ result.output = <<"4","2">>

\* the loop stopped at response i: it is the last one received, no call was
\* issued after it, and no tool was invoked for it
StoppedAt(i) ==
    /\ i = Len(responses)
    /\ gateway_calls = i
    /\ tool_calls = i - 1
    /\ Len(tool_usage) <= i - 1
    /\ pc \in {"extract", "returned"}

\* C5 as stated: a response naming an unregistered tool stops the loop at that
\* iteration (no tool invoked for it, no further Gateway call, no record
\* appended) and the run returns success = true with that response text as
\* the output.
C5_UnknownToolReturnsResponse ==
    \A i \in 1..Len(responses) :
        responses[i] \in UnregisteredResponses
        => /\ StoppedAt(i)
           /\ pc = "returned" => /\ result.success
                                 /\ Len(result.tool_usage) = i - 1
                                 /\ result.output = responses[i]

\* C5 amended: ... and the run returns success = true with, as the output,
\* that response text or, when it holds an ANSWER: marker, the stripped text
\* after the first one.
C5_UnknownToolStopsLoop ==
    \A i \in 1..Len(responses) :
        responses[i] \in UnregisteredResponses
        => /\ StoppedAt(i)
           /\ pc = "returned" => /\ result.success
                                 /\ Len(result.tool_usage) = i - 1
                                 /\ result.output = ReportedOutput(responses[i])

\* an unregistered tool is named after a registered one was dispatched
C5_Witness ==
    /\ pc = "returned"
    /\ responses = <<RespCalc, RespBogus>>
    /\ max_iterations = 3
    /\ result.success /\ result.output = RespBogus
    /\ Len(result.tool_usage) = 1

-----------------------------------------------------------------------------
(* Properties of the streaming variant *)

\* tool_start then tool_end for each record of tu, in order
ToolEventsOf(tu) ==
    [k \in 1..(2 * Len(tu)) |->
        IF k % 2 = 1
        THEN [type |-> "tool_start",
              data |-> [tool |-> tu[(k + 1) \div 2].tool,
                        input |-> tu[(k + 1) \div 2].tool_input]]
        ELSE [type |-> "tool_end",
              data |-> [tool |-> tu[k \div 2].tool,
                        output |-> tu[k \div 2].observation]]]

\* one message event per character of out, in order
MessageEventsOf(out) == [k \in 1..Len(out) |-> [type |-> "message", data |-> <<out[k]>>]]

\* the whole event sequence of a completed stream over the result res
StreamShape(res) ==
    << [type |-> "start", data |-> <<"Agent thinking...">>] >>
    \o ToolEventsOf(res.tool_usage)
    \o MessageEventsOf(res.output)
    \o << [type |-> "done",
           data |-> [k \in 1..Len(res.tool_usage) |-> res.tool_usage[k].tool]] >>

EventTypes(t) == {i \in 1..Len(events) : events[i].type = t}

C7_ExceptionYieldsErrorEvent ==
    (mode = "stream" /\ raised # <<>>)
    => /\ EventTypes("message") = {} /\ EventTypes("done") = {}
       /\ spc = "closed" => Cardinality(EventTypes("error")) = 1

-----------------------------------------------------------------------------
(* Research workflow (app/graph_workflows.py): inputs and collaborators.   *)
(* A query is a sequence of characters; the fixed texts of prompts and     *)
(* messages are single pieces of the sequences they are part of.           *)

\* "hi": no cue word
QueryPlain == <<"h","i">>
\* "my File": a document cue, in upper case
QueryFile == <<"m","y"," ","F","i","l","e">>
\* "latest news": recency cues
QueryNews == <<"l","a","t","e","s","t"," ","n","e","w","s">>
\* "what is 1+1": calculation cues
QueryCalc == <<"w","h","a","t"," ","i","s"," ","1","+","1">>
\* "file news 1+1": cues of all three steps
QueryAll == <<"f","i","l","e"," ","n","e","w","s"," ","1","+","1">>

ResearchQueries == {QueryPlain, QueryFile, QueryNews, QueryCalc, QueryAll}

DocumentCues == { <<"d","o","c","u","m","e","n","t">>, <<"f","i","l","e">> }
RecencyCues == { <<"c","u","r","r","e","n","t">>, <<"l","a","t","e","s","t">>,
                 <<"r","e","c","e","n","t">>, <<"n","e","w","s">>,
                 <<"t","o","d","a","y">> }
CalculationCues == { <<"c","a","l","c","u","l","a","t","e">>,
                     <<"c","o","m","p","u","t","e">>,
                     <<"h","o","w"," ","m","a","n","y">>,
                     <<"w","h","a","t"," ","i","s">>, <<"+">> }

\* what the Gateway answers to the plan and to the synthesis prompt
PlanTexts == { <<"p","l","a","n">> }
AnswerTexts == { <<"a","n","s">>, <<>> }
\* what the Gateway answers to the expression prompt: "NONE", " 2+2 ", ""
ExpressionTexts == { <<"N","O","N","E">>, <<" ","2","+","2"," ">>, <<>> }
\* what numexpr.evaluate(...).item() returns
EvaluatorResults == { 4 }
\* what vector_store.list_documents() returns
DocumentLists == { <<>>, << <<"a",".","t","x","t">> >> }
\* what vector_store.search(query, k=3) returns
SearchResults == { <<>>,
                   << [filename |-> <<"a",".","t","x","t">>, page_content |-> <<"c">>] >> }
\* what the web search returns
WebResults == { <<>>, <<"w","e","b">> }

\* page_content[:200] in the documents message
PageContentLimit == 200
\* results[:300] in the web message
WebMessageLimit == 300
\* web_results[:500] in the synthesis prompt
WebPromptLimit == 500

Call(c) == [calls EXCEPT ![c] = @ + 1]

\* initial_state of run_research_workflow, as the graph receives it
InitialResearchState(q) ==
    ApplyUpdate(NoResearchState,
        [query |-> q,
         messages |-> <<WfMessage("human", q)>>,
         documents_found |-> <<>>,
         web_results |-> NoneStr,
         calculations |-> <<>>,
         research_plan |-> NoneStr,
         final_answer |-> NoneStr,
         iterations |-> 0,
         needs_approval |-> FALSE,
         approved |-> NoneStr,
         error |-> NoneStr])

\* POST /api/graph/research: workflow.ainvoke(initial_state)
StartResearch ==
    /\ wf = "none"
    /\ wf' = "research"
    /\ \E q \in ResearchQueries : state' = InitialResearchState(q)
    /\ node' = "plan"
    /\ UNCHANGED <<cstate, trace, failed, propagated, calls, gateway_input>>
    /\ UNCHANGED <<agentVars, extVars>>

\* the prompt of create_research_plan
PlanPrompt(st) == <<"Given this query: \"">> \o st.query \o <<"\"\n\nCreate a step-by-step research plan. [...]">>

\* the plan step leaves the counter as it was
create_research_plan_uncounted(st, plan) ==
    [st EXCEPT !.research_plan = plan,
               !.messages = st.messages \o <<WfMessage("ai", <<"Research plan: ">> \o plan)>>]

\* create_research_plan: the dict returned for the Gateway's plan text
create_research_plan(st, plan) ==
    [st EXCEPT !.research_plan = plan,
               !.messages = st.messages \o <<WfMessage("ai", <<"Research plan: ">> \o plan)>>,
               !.iterations = st.iterations + 1]

\* node plan, followed by the edge plan -> search_docs
PlanStep ==
    /\ wf = "research" /\ node = "plan"
    /\ trace' = Append(trace, "plan")
    /\ calls' = Call("gateway")
    /\ gateway_input' = <<WfMessage("human", PlanPrompt(state))>>
    /\ \E plan \in PlanTexts :
           state' = ApplyUpdate(state, create_research_plan(state, plan))
    /\ node' = "search_docs"
    /\ UNCHANGED <<wf, cstate, failed, propagated>>
    /\ UNCHANGED <<agentVars, extVars>>

\* node plan when llm.invoke raises: nothing catches it inside the graph
PlanRaises ==
    /\ wf = "research" /\ node = "plan"
    /\ trace' = Append(trace, "plan")
    /\ calls' = Call("gateway")
    /\ gateway_input' = <<WfMessage("human", PlanPrompt(state))>>
    /\ failed' = failed \cup {"plan"}
    /\ \E msg \in ExceptionMessages : propagated' = msg
    /\ node' = "RAISED"
    /\ UNCHANGED <<wf, state, cstate>>
    /\ UNCHANGED <<agentVars, extVars>>

\* the test that guards search_documents
WantsDocuments(st) == AnyIn(DocumentCues, Lower(st.query))

\* docs_content of search_documents
DocsContent(results) ==
    JoinBlank([i \in 1..Len(results) |->
        <<"[">> \o results[i].filename \o <<"]: ">>
              \o Prefix(results[i].page_content, PageContentLimit)])

\* search_documents: the dict returned when documents exist
search_documents_found(st, documents, results) ==
    [st EXCEPT !.documents_found = documents,
               !.messages = st.messages \o
                   <<WfMessage("ai", <<"Found relevant info in documents:\n">>
                                      \o DocsContent(results))>>]

\* search_documents: the dict returned when the store is empty
search_documents_none(st) ==
    [st EXCEPT !.documents_found = <<>>,
               !.messages = st.messages \o
                   <<WfMessage("ai", <<"No documents found in the system.">>)>>]

\* the except block returns the state without the error
search_documents_error_dropped(st, msg) == st

\* search_documents: the dict returned by the except block
search_documents_error(st, msg) ==
    [st EXCEPT !.error = <<"Document search error: ">> \o msg]

\* node search_docs, followed by the edge search_docs -> search_web
SearchDocsStep ==
    /\ wf = "research" /\ node = "search_docs"
    /\ trace' = Append(trace, "search_docs")
    /\ IF ~WantsDocuments(state)
       THEN /\ state' = ApplyUpdate(state, state)
            /\ UNCHANGED calls
       ELSE \E documents \in DocumentLists :
               IF documents # <<>>
               THEN /\ calls' = [calls EXCEPT !["list_documents"] = @ + 1,
                                              !["search"] = @ + 1]
                    /\ \E results \in SearchResults :
                          state' = ApplyUpdate(state,
                                      search_documents_found(state, documents, results))
               ELSE /\ calls' = Call("list_documents")
                    /\ state' = ApplyUpdate(state, search_documents_none(state))
    /\ node' = "search_web"
    /\ UNCHANGED <<wf, cstate, failed, propagated, gateway_input>>
    /\ UNCHANGED <<agentVars, extVars>>

\* node search_docs when the Retrieval collaborator raises, either when the
\* service is obtained or in search: the except block records the error
SearchDocsFails ==
    /\ wf = "research" /\ node = "search_docs"
    /\ WantsDocuments(state)
    /\ trace' = Append(trace, "search_docs")
    /\ failed' = failed \cup {"search_docs"}
    /\ \E in_search \in BOOLEAN :
          calls' = IF in_search
                   THEN [calls EXCEPT !["list_documents"] = @ + 1, !["search"] = @ + 1]
                   ELSE calls
    /\ \E msg \in ExceptionMessages :
          state' = ApplyUpdate(state, search_documents_error(state, msg))
    /\ node' = "search_web"
    /\ UNCHANGED <<wf, cstate, propagated, gateway_input>>
    /\ UNCHANGED <<agentVars, extVars>>

\* the web search also runs for a query that asks for documents
WantsAnySearch(st) == AnyIn(RecencyCues \cup DocumentCues, Lower(st.query))

\* the test that guards search_web
WantsWeb(st) == AnyIn(RecencyCues, Lower(st.query))

\* search_web: the dict returned for the search results
search_web_found(st, results) ==
    [st EXCEPT !.web_results = results,
               !.messages = st.messages \o
                   <<WfMessage("ai", <<"Web search results: ">>
                                      \o Prefix(results, WebMessageLimit) \o <<"...">>)>>]

\* an error recorded by an earlier step is kept
search_web_error_keeps_first(st, msg) ==
    IF TruthyStr(st.error) THEN st
    ELSE [st EXCEPT !.error = <<"Web search error: ">> \o msg]

\* the except block also notes the failure in the conversation
search_web_error_noted(st, msg) ==
    [st EXCEPT !.error = <<"Web search error: ">> \o msg,
               !.messages = st.messages \o
                   <<WfMessage("ai", <<"Web search error: ">> \o msg)>>]

\* search_web: the dict returned by the except block
search_web_error(st, msg) ==
    [st EXCEPT !.error = <<"Web search error: ">> \o msg]

\* node search_web, followed by the edge search_web -> calculate
SearchWebStep ==
    /\ wf = "research" /\ node = "search_web"
    /\ trace' = Append(trace, "search_web")
    /\ IF ~WantsWeb(state)
       THEN /\ state' = ApplyUpdate(state, state)
            /\ UNCHANGED calls
       ELSE /\ calls' = Call("web_search")
            /\ \E results \in WebResults :
                  state' = ApplyUpdate(state, search_web_found(state, results))
    /\ node' = "calculate"
    /\ UNCHANGED <<wf, cstate, failed, propagated, gateway_input>>
    /\ UNCHANGED <<agentVars, extVars>>

\* node search_web when the web search raises: the except block records it
SearchWebFails ==
    /\ wf = "research" /\ node = "search_web"
    /\ WantsWeb(state)
    /\ trace' = Append(trace, "search_web")
    /\ failed' = failed \cup {"search_web"}
    /\ calls' = Call("web_search")
    /\ \E msg \in ExceptionMessages :
          state' = ApplyUpdate(state, search_web_error(state, msg))
    /\ node' = "calculate"
    /\ UNCHANGED <<wf, cstate, propagated, gateway_input>>
    /\ UNCHANGED <<agentVars, extVars>>

\* the test that guards perform_calculations
WantsCalculation(st) == AnyIn(CalculationCues, Lower(st.query))

\* the prompt of perform_calculations
ExpressionPrompt(st) ==
    <<"Extract any mathematical expression from this query: \"">> \o st.query
        \o <<"\"\nIf there's a calculation, respond with ONLY the expression [...]">>

\* expression != "NONE" and expression
IsExpression(expression) == expression # <<"N","O","N","E">> /\ expression # <<>>

\* the returned dict is built anew from the query instead of from the state
perform_calculations_done_rebuilt(st, expression, res) ==
    [NoResearchState EXCEPT
        !.query = st.query,
        !.iterations = st.iterations,
        !.calculations = << [expression |-> expression, result |-> res] >>,
        !.messages = st.messages \o
            <<WfMessage("ai", <<"Calculation: ">> \o expression
                               \o <<" = ">> \o NumStr(res))>>]

\* perform_calculations: the dict returned for an evaluated expression
perform_calculations_done(st, expression, res) ==
    [st EXCEPT !.calculations = << [expression |-> expression, result |-> res] >>,
               !.messages = st.messages \o
                   <<WfMessage("ai", <<"Calculation: ">> \o expression
                                      \o <<" = ">> \o NumStr(res))>>]

\* the iteration limit of the router
IterationLimit == 5

\* the router tests what was gathered before it tests the error
should_continue_research_info_first(st) ==
    IF \/ TruthySeq(st.documents_found)
       \/ TruthyStr(st.web_results)
       \/ TruthySeq(st.calculations)
    THEN "synthesize"
    ELSE IF TruthyStr(st.error) THEN "error"
    ELSE "continue"

\* should_continue_research: the label the router returns
should_continue_research(st) ==
    IF TruthyStr(st.error) THEN "error"
    ELSE IF st.iterations >= IterationLimit THEN "synthesize"
    ELSE IF \/ TruthySeq(st.documents_found)
            \/ TruthyStr(st.web_results)
            \/ TruthySeq(st.calculations)
         THEN "synthesize"
         ELSE "continue"

\* "continue" re-enters the pipeline at plan
ResearchEdgesLoop(label) ==
    IF label = "error" THEN "END"
    ELSE IF label = "continue" THEN "plan"
    ELSE "synthesize"

\* the label "continue" ends the run
ResearchEdgesStopOnContinue(label) ==
    IF label = "synthesize" THEN "synthesize" ELSE "END"

\* add_conditional_edges("calculate", ...): the node each label leads to
ResearchEdges(label) ==
    IF label = "error" THEN "END" ELSE "synthesize"

\* node calculate, followed by the conditional edge
CalculateStep ==
    /\ wf = "research" /\ node = "calculate"
    /\ trace' = Append(trace, "calculate")
    /\ IF ~WantsCalculation(state)
       THEN /\ state' = ApplyUpdate(state, state)
            /\ UNCHANGED <<calls, gateway_input>>
       ELSE /\ gateway_input' = <<WfMessage("human", ExpressionPrompt(state))>>
            /\ \E text \in ExpressionTexts :
                  LET expression == Strip(text)
                  IN  IF IsExpression(expression)
                      THEN /\ calls' = [calls EXCEPT !["gateway"] = @ + 1,
                                                     !["evaluate"] = @ + 1]
                           /\ \E res \in EvaluatorResults :
                                 state' = ApplyUpdate(state,
                                     perform_calculations_done(state, expression, res))
                      ELSE /\ calls' = Call("gateway")
                           /\ state' = ApplyUpdate(state, state)
    /\ node' = ResearchEdges(should_continue_research(state'))
    /\ UNCHANGED <<wf, cstate, failed, propagated>>
    /\ UNCHANGED <<agentVars, extVars>>

\* the except block records the failure like the two search steps do
perform_calculations_failed_recorded(st, msg) ==
    [st EXCEPT !.error = <<"Calculation error: ">> \o msg]

\* perform_calculations: what is returned after the except block, which only
\* logs the exception
perform_calculations_failed(st, msg) == st

\* node calculate when llm.invoke or the evaluator raises: the except block
\* logs the exception and the state is returned as received
CalculateFails ==
    /\ wf = "research" /\ node = "calculate"
    /\ WantsCalculation(state)
    /\ trace' = Append(trace, "calculate")
    /\ failed' = failed \cup {"calculate"}
    /\ gateway_input' = <<WfMessage("human", ExpressionPrompt(state))>>
    /\ \E in_evaluator \in BOOLEAN :
          calls' = IF in_evaluator
                   THEN [calls EXCEPT !["gateway"] = @ + 1, !["evaluate"] = @ + 1]
                   ELSE Call("gateway")
    /\ \E msg \in ExceptionMessages :
          state' = ApplyUpdate(state, perform_calculations_failed(state, msg))
    /\ node' = ResearchEdges(should_continue_research(state'))
    /\ UNCHANGED <<wf, cstate, propagated>>
    /\ UNCHANGED <<agentVars, extVars>>

\* ', '.join(names)
RECURSIVE JoinComma(_)
JoinComma(names) ==
    IF names = <<>> THEN <<>>
    ELSE IF Len(names) = 1 THEN names[1]
    ELSE names[1] \o <<",", " ">> \o JoinComma(Tail(names))

\* context_parts of synthesize_answer
ContextParts(st) ==
    << <<"Original query: ">> \o st.query >>
    \o (IF TruthySeq(st.documents_found)
        THEN << <<"Documents available: ">> \o JoinComma(st.documents_found) >>
        ELSE <<>>)
    \o (IF TruthyStr(st.web_results)
        THEN << <<"Web results: ">> \o Prefix(st.web_results, WebPromptLimit) >>
        ELSE <<>>)
    \o (IF TruthySeq(st.calculations)
        THEN << <<"Calculation: ">> \o st.calculations[1].expression
                   \o <<" = ">> \o NumStr(st.calculations[1].result) >>
        ELSE <<>>)

\* the prompt of synthesize_answer
SynthesisPrompt(st) ==
    <<"Based on the research gathered:\n\n">> \o JoinBlank(ContextParts(st))
        \o <<"\n\nProvide a comprehensive answer to the original query. [...]">>

\* synthesize_answer: the dict returned for the Gateway's answer
synthesize_answer(st, answer) ==
    [st EXCEPT !.final_answer = answer,
               !.messages = st.messages \o <<WfMessage("ai", answer)>>]

\* node synthesize, followed by the edge synthesize -> END
SynthesizeStep ==
    /\ wf = "research" /\ node = "synthesize"
    /\ trace' = Append(trace, "synthesize")
    /\ calls' = Call("gateway")
    /\ gateway_input' = <<WfMessage("human", SynthesisPrompt(state))>>
    /\ \E answer \in AnswerTexts :
          state' = ApplyUpdate(state, synthesize_answer(state, answer))
    /\ node' = "END"
    /\ UNCHANGED <<wf, cstate, failed, propagated>>
    /\ UNCHANGED <<agentVars, extVars>>

\* node synthesize when llm.invoke raises: nothing catches it inside the graph
SynthesizeRaises ==
    /\ wf = "research" /\ node = "synthesize"
    /\ trace' = Append(trace, "synthesize")
    /\ calls' = Call("gateway")
    /\ gateway_input' = <<WfMessage("human", SynthesisPrompt(state))>>
    /\ failed' = failed \cup {"synthesize"}
    /\ \E msg \in ExceptionMessages : propagated' = msg
    /\ node' = "RAISED"
    /\ UNCHANGED <<wf, state, cstate>>
    /\ UNCHANGED <<agentVars, extVars>>

-----------------------------------------------------------------------------
(* Chat workflow (app/graph_workflows.py) *)

\* "search file": a document cue and a web cue of the fallback heuristic
QuerySearchFile == <<"s","e","a","r","c","h"," ","f","i","l","e">>

ChatQueries == {QueryPlain, QueryFile, QueryNews, QuerySearchFile}

ChatDocumentCues == { <<"d","o","c","u","m","e","n","t">>, <<"f","i","l","e">>,
                      <<"u","p","l","o","a","d","e","d">> }
ChatWebCues == { <<"c","u","r","r","e","n","t">>, <<"l","a","t","e","s","t">>,
                 <<"s","e","a","r","c","h">>, <<"n","e","w","s">> }

\* what json.loads makes of the Gateway's analysis: a JSON object whose two
\* keys are true, false or absent; valid JSON that is no object; or no JSON
AnalysisResponses ==
    { [kind |-> "object", search_docs |-> d, search_web |-> w] :
          d \in {"true", "false", "absent"}, w \in {"true", "false", "absent"} }
    \cup { [kind |-> "other", search_docs |-> "absent", search_web |-> "absent"],
           [kind |-> "invalid", search_docs |-> "absent", search_web |-> "absent"] }

\* what the Gateway answers in generate
ChatResponses == { <<"r","e","p","l","y">> }

\* the conversion of chat_history in run_chat_workflow
RECURSIVE ConvertHistory(_)
ConvertHistory(h) ==
    IF h = <<>> THEN <<>>
    ELSE LET msg == Head(h)
             rest == ConvertHistory(Tail(h))
         IN  IF msg.role = "user" THEN <<WfMessage("human", msg.content)>> \o rest
             ELSE IF msg.role = "assistant" THEN <<WfMessage("ai", msg.content)>> \o rest
             ELSE rest

\* initial_state of run_chat_workflow, as the graph receives it
InitialChatState(q, h) ==
    ApplyUpdate(NoChatState,
        [messages |-> ConvertHistory(h),
         current_query |-> q,
         context |-> NoneStr,
         response |-> NoneStr,
         should_search_docs |-> FALSE,
         should_search_web |-> FALSE])

\* POST /api/graph/chat: workflow.ainvoke(initial_state)
StartChat ==
    /\ wf = "none"
    /\ wf' = "chat"
    /\ \E q \in ChatQueries, h \in ChatHistories : cstate' = InitialChatState(q, h)
    /\ node' = "analyze"
    /\ UNCHANGED <<state, trace, failed, propagated, calls, gateway_input>>
    /\ UNCHANGED <<agentVars, extVars>>

\* the prompt of analyze_query
AnalysisPrompt(st) ==
    <<"Analyze this query: \"">> \o st.current_query \o <<"\"\n\nShould we: [...]">>

\* analysis.get(key, False) for a JSON boolean
JsonFlag(v) == v = "true"

\* analyze_query: the two flags, from the parsed analysis or, when parsing or
\* .get fails, from the keyword heuristic
AnalysisFlags(st, a) ==
    IF a.kind = "object"
    THEN [docs |-> JsonFlag(a.search_docs), web |-> JsonFlag(a.search_web)]
    ELSE [docs |-> AnyIn(ChatDocumentCues, Lower(st.current_query)),
          web |-> AnyIn(ChatWebCues, Lower(st.current_query))]

\* analyze_query: the dict returned
analyze_query(st, a) ==
    [st EXCEPT !.should_search_docs = AnalysisFlags(st, a).docs,
               !.should_search_web = AnalysisFlags(st, a).web]

\* the router tests the web flag before the documents flag
route_query_web_first(st) ==
    IF st.should_search_web THEN "search_web"
    ELSE IF st.should_search_docs THEN "fetch_context"
    ELSE "generate"

\* route_query: the label the router returns
route_query(st) ==
    IF st.should_search_docs THEN "fetch_context"
    ELSE IF st.should_search_web THEN "search_web"
    ELSE "generate"

\* the label "search_web" leads to fetch_context
ChatEdgesWebFetches(label) ==
    IF label = "generate" THEN "generate" ELSE "fetch_context"

\* add_conditional_edges("analyze", ...): the node each label leads to
ChatEdges(label) ==
    IF label = "fetch_context" THEN "fetch_context" ELSE "generate"

\* node analyze, followed by the conditional edge
AnalyzeStep ==
    /\ wf = "chat" /\ node = "analyze"
    /\ trace' = Append(trace, "analyze")
    /\ calls' = Call("gateway")
    /\ gateway_input' = <<WfMessage("human", AnalysisPrompt(cstate))>>
    /\ \E a \in AnalysisResponses :
          cstate' = ApplyUpdate(cstate, analyze_query(cstate, a))
    /\ node' = ChatEdges(route_query(cstate'))
    /\ UNCHANGED <<wf, state, failed, propagated>>
    /\ UNCHANGED <<agentVars, extVars>>

\* node analyze when llm.invoke raises: the call is outside the try block
AnalyzeRaises ==
    /\ wf = "chat" /\ node = "analyze"
    /\ trace' = Append(trace, "analyze")
    /\ calls' = Call("gateway")
    /\ gateway_input' = <<WfMessage("human", AnalysisPrompt(cstate))>>
    /\ failed' = failed \cup {"analyze"}
    /\ \E msg \in ExceptionMessages : propagated' = msg
    /\ node' = "RAISED"
    /\ UNCHANGED <<wf, state, cstate>>
    /\ UNCHANGED <<agentVars, extVars>>

\* the context is the joined matches, also when there are none
ContextOfJoined(results) ==
    JoinBlank([i \in 1..Len(results) |->
        <<"[">> \o results[i].filename \o <<"]: ">> \o results[i].page_content])

\* context of fetch_document_context for the search results
ContextOf(results) ==
    IF results # <<>>
    THEN JoinBlank([i \in 1..Len(results) |->
             <<"[">> \o results[i].filename \o <<"]: ">> \o results[i].page_content])
    ELSE <<"No relevant documents found.">>

\* fetch_document_context: the dict returned
fetch_document_context(st, context) == [st EXCEPT !.context = context]

\* node fetch_context, followed by the edge fetch_context -> generate
FetchContextStep ==
    /\ wf = "chat" /\ node = "fetch_context"
    /\ trace' = Append(trace, "fetch_context")
    /\ calls' = Call("search")
    /\ \E results \in SearchResults :
          cstate' = ApplyUpdate(cstate, fetch_document_context(cstate, ContextOf(results)))
    /\ node' = "generate"
    /\ UNCHANGED <<wf, state, failed, propagated, gateway_input>>
    /\ UNCHANGED <<agentVars, extVars>>

\* node fetch_context when the Retrieval collaborator raises, either when the
\* service is obtained or in search: the error text becomes the context
FetchContextFails ==
    /\ wf = "chat" /\ node = "fetch_context"
    /\ trace' = Append(trace, "fetch_context")
    /\ failed' = failed \cup {"fetch_context"}
    /\ \E in_search \in BOOLEAN :
          calls' = IF in_search THEN Call("search") ELSE calls
    /\ \E msg \in ExceptionMessages :
          cstate' = ApplyUpdate(cstate,
              fetch_document_context(cstate, <<"Error fetching documents: ">> \o msg))
    /\ node' = "generate"
    /\ UNCHANGED <<wf, state, propagated, gateway_input>>
    /\ UNCHANGED <<agentVars, extVars>>

\* the message list generate_response sends to the Gateway
GenerateInput(st) ==
    st.messages
    \o (IF TruthyStr(st.context)
        THEN <<WfMessage("system", <<"Relevant context:\n">> \o st.context
                   \o <<"\n\nUse this context to answer the query.">>)>>
        ELSE <<>>)
    \o <<WfMessage("human", st.current_query)>>

\* the list sent to the Gateway, context instruction included, is recorded
generate_response_records_sent(st, response) ==
    [st EXCEPT !.response = response,
               !.messages = GenerateInput(st) \o <<WfMessage("ai", response)>>]

\* generate_response: the dict returned for the Gateway's response
generate_response(st, response) ==
    [st EXCEPT !.response = response,
               !.messages = st.messages \o <<WfMessage("human", st.current_query),
                                             WfMessage("ai", response)>>]

\* node generate, followed by the edge generate -> END
GenerateStep ==
    /\ wf = "chat" /\ node = "generate"
    /\ trace' = Append(trace, "generate")
    /\ calls' = Call("gateway")
    /\ gateway_input' = GenerateInput(cstate)
    /\ \E response \in ChatResponses :
          cstate' = ApplyUpdate(cstate, generate_response(cstate, response))
    /\ node' = "END"
    /\ UNCHANGED <<wf, state, failed, propagated>>
    /\ UNCHANGED <<agentVars, extVars>>

\* node generate when llm.invoke raises: nothing catches it inside the graph
GenerateRaises ==
    /\ wf = "chat" /\ node = "generate"
    /\ trace' = Append(trace, "generate")
    /\ calls' = Call("gateway")
    /\ gateway_input' = GenerateInput(cstate)
    /\ failed' = failed \cup {"generate"}
    /\ \E msg \in ExceptionMessages : propagated' = msg
    /\ node' = "RAISED"
    /\ UNCHANGED <<wf, state, cstate>>
    /\ UNCHANGED <<agentVars, extVars>>

-----------------------------------------------------------------------------
(* One workflow request, research or chat *)

NextWorkflow ==
    \/ StartResearch
    \/ PlanStep
    \/ PlanRaises
    \/ SearchDocsStep
    \/ SearchDocsFails
    \/ SearchWebStep
    \/ SearchWebFails
    \/ CalculateStep
    \/ CalculateFails
    \/ SynthesizeStep
    \/ SynthesizeRaises
    \/ StartChat
    \/ AnalyzeStep
    \/ AnalyzeRaises
    \/ FetchContextStep
    \/ FetchContextFails
    \/ GenerateStep
    \/ GenerateRaises

SpecWorkflow == Init /\ [][NextWorkflow]_vars

\* every started node is eventually run: the graph runner executes the
\* pipeline to its end without waiting on anything but its collaborators
FairWorkflow == SpecWorkflow /\ WF_vars(NextWorkflow)

-----------------------------------------------------------------------------
(* Properties of the workflows *)

PropagatingSteps == {"plan", "synthesize", "analyze", "generate"}

\* C8 as stated: whenever a collaborator has raised inside a step of a
\* workflow, the exception is recorded in the state's error field and does not
\* leave the workflow run.
C8_EveryStepRecordsError ==
    failed # {}
    => /\ propagated = NoneStr /\ node # "RAISED"
       /\ wf = "research" => TruthyStr(state.error)

\* C8 amended: search_docs and search_web catch their collaborator's exception
\* and record it in the state's error field (a failure of search_web replaces
\* the error of search_docs); calculate catches the exception of the Gateway
\* or of the evaluator and records nothing; fetch_context catches the
\* Retrieval exception and records its text in context; none of the four
\* re-raises.  plan, synthesize, analyze and generate do not catch: an
\* exception of the Gateway there, and only there, leaves the workflow run.
C8_StepFailureHandling ==
    /\ (propagated # NoneStr) <=> (failed \cap PropagatingSteps # {})
    /\ (node = "RAISED") <=> (propagated # NoneStr)
    /\ "search_web" \in failed
           => \E msg \in ExceptionMessages : state.error = <<"Web search error: ">> \o msg
    /\ ("search_docs" \in failed /\ "search_web" \notin failed)
           => \E msg \in ExceptionMessages :
                  state.error = <<"Document search error: ">> \o msg
    /\ (wf = "research" /\ failed \cap {"search_docs", "search_web"} = {})
           => state.error = NoneStr
    /\ "fetch_context" \in failed
           => \E msg \in ExceptionMessages :
                  cstate.context = <<"Error fetching documents: ">> \o msg

\* Retrieval and the evaluator failed in one run, which still reached END
C8_Witness ==
    /\ wf = "research" /\ node = "END"
    /\ failed = {"search_docs", "calculate"}
    /\ state.error = <<"Document search error: ", "b", "o", "o", "m">>
    /\ propagated = NoneStr

\* the plan step has completed in this run
PlanDone == wf = "research" /\ Len(trace) >= 1 /\ ~(node = "RAISED" /\ Len(trace) = 1)

\* C9: in a research run started from iterations = 0, iterations never
\* decreases, is 1 once the plan step has completed and in every later state
\* up to END, so that the router never sees iterations >= 5.
C9_IterationsIsOne ==
    /\ [](wf = "research" =>
            /\ state.iterations = (IF PlanDone THEN 1 ELSE 0)
            /\ state.iterations < IterationLimit)
    /\ [][state'.iterations >= state.iterations]_vars

\* the router answered "continue" (nothing gathered) and the run still ended
\* after one pass
C9_Witness ==
    /\ wf = "research" /\ node = "END"
    /\ trace = <<"plan", "search_docs", "search_web", "calculate", "synthesize">>
    /\ should_continue_research(state) = "continue"
    /\ state.iterations = 1

ResearchPipeline == <<"plan", "search_docs", "search_web", "calculate", "synthesize">>

\* the node that follows the nodes entered so far
NodeAfter(tr) ==
    IF Len(tr) < 4 THEN {ResearchPipeline[Len(tr) + 1]}
    ELSE IF Len(tr) = 4 THEN {"synthesize", "END"}
    ELSE {"END"}

\* C10: a research run in which no step raises enters plan, search_docs,
\* search_web and calculate once each in that order, then synthesize once and
\* END, or END directly; plan is not re-entered; final_answer is written at
\* most once and only by synthesize; and the run terminates.
C10_SinglePassPipeline ==
    /\ [](wf = "research" =>
            /\ Len(trace) <= 5
            /\ trace = SubSeq(ResearchPipeline, 1, Len(trace))
            /\ node = "RAISED" => propagated # NoneStr
            /\ node # "RAISED" => node \in NodeAfter(trace)
            /\ state.final_answer # NoneStr => (Len(trace) = 5 /\ node = "END"))
    /\ [][state'.final_answer # state.final_answer
            => (node = "synthesize" /\ state.final_answer = NoneStr)]_vars
    /\ (wf = "research") ~> (node \in {"END", "RAISED"})

C10_Witness ==
    /\ wf = "research" /\ node = "END"
    /\ trace = ResearchPipeline
    /\ propagated = NoneStr /\ failed = {}
    /\ state.final_answer = <<"a","n","s">>
    /\ TruthySeq(state.calculations) /\ TruthySeq(state.documents_found)

-----------------------------------------------------------------------------
(* Routing of the two workflows *)

\* the calculate step has completed in this run
CalculateDone == wf = "research" /\ Len(trace) >= 4

\* C11: after calculate the next node is decided by the state alone.  When
\* error is set the run goes to END, synthesize is never entered and
\* final_answer stays unset; when error is unset the run goes to synthesize,
\* whatever was gathered.
C11_RoutingAfterCalculate ==
    /\ [](CalculateDone =>
            IF state.error # NoneStr
            THEN /\ node = "END"
                 /\ trace = SubSeq(ResearchPipeline, 1, 4)
                 /\ state.final_answer = NoneStr
            ELSE \/ node = "synthesize" /\ Len(trace) = 4
                 \/ node \in {"END", "RAISED"} /\ trace = ResearchPipeline)
    /\ [][(wf = "research" /\ node = "calculate")
            => node' = (IF state'.error # NoneStr THEN "END" ELSE "synthesize")]_vars

\* Retrieval failed, the web search then returned results, and the run ended
\* after calculate without an answer
C11_Witness ==
    /\ wf = "research" /\ node = "END"
    /\ trace = <<"plan", "search_docs", "search_web", "calculate">>
    /\ state.error = <<"Document search error: ", "b", "o", "o", "m">>
    /\ state.web_results = <<"w","e","b">>
    /\ state.final_answer = NoneStr

\* the query holds none of the cue words of the three gathering steps
NoCues(st) == ~WantsDocuments(st) /\ ~WantsWeb(st) /\ ~WantsCalculation(st)

Entered(n) == \E i \in DOMAIN trace : trace[i] = n

\* the contexts fetch_context can produce
FetchedContexts ==
    { ContextOf(results) : results \in SearchResults }
    \cup { <<"Error fetching documents: ">> \o msg : msg \in ExceptionMessages }

\* C13: in a chat run, once analyze has routed the query, a true
\* should_search_docs means that fetch_context runs before generate and that
\* generate receives a non-empty context (the joined matches, the "no
\* relevant documents" text or an error text), which it passes to the Gateway
\* as a system message; a false should_search_docs means that fetch_context
\* is never entered and that context is unset when generate runs and at END.
C13_ContextFollowsDocsFlag ==
    (wf = "chat" /\ (node = "generate" \/ Entered("generate"))) =>
        IF cstate.should_search_docs
        THEN /\ SubSeq(trace, 1, 2) = <<"analyze", "fetch_context">>
             /\ TruthyStr(cstate.context)
             /\ cstate.context \in FetchedContexts
             /\ Entered("generate") =>
                    \E i \in DOMAIN gateway_input :
                        /\ gateway_input[i].role = "system"
                        /\ gateway_input[i].content =
                               <<"Relevant context:\n">> \o cstate.context
                                   \o <<"\n\nUse this context to answer the query.">>
        ELSE /\ ~Entered("fetch_context")
             /\ cstate.context = NoneStr
             /\ Entered("generate") =>
                    \A i \in DOMAIN gateway_input : gateway_input[i].role # "system"

\* Retrieval found nothing, and generate ran with the "no relevant documents"
\* context
C13_Witness ==
    /\ wf = "chat" /\ node = "END"
    /\ cstate.should_search_docs
    /\ trace = <<"analyze", "fetch_context", "generate">>
    /\ cstate.context = <<"No relevant documents found.">>
    /\ failed = {}

\* the traces of a chat run
ChatTraces ==
    { <<>>, <<"analyze">>, <<"analyze", "generate">>,
      <<"analyze", "fetch_context">>, <<"analyze", "fetch_context", "generate">> }

\* C15: a chat run starts at analyze; it enters fetch_context at most once,
\* and exactly when should_search_docs is true, whatever should_search_web
\* is; it then enters generate once and reaches END; no node is entered
\* twice.  The run ends at END unless the Gateway raises in analyze or in
\* generate.
C15_ChatPipelineTerminates ==
    /\ [](wf = "chat" =>
            /\ trace \in ChatTraces
            /\ trace = <<>> => node = "analyze"
            /\ trace = <<"analyze">> =>
                   \/ node = "RAISED"
                   \/ node = (IF cstate.should_search_docs
                              THEN "fetch_context" ELSE "generate")
            /\ trace = <<"analyze", "fetch_context">> =>
                   node = "generate" /\ cstate.should_search_docs
            /\ trace = <<"analyze", "generate">> =>
                   node \in {"END", "RAISED"} /\ ~cstate.should_search_docs
            /\ trace = <<"analyze", "fetch_context", "generate">> =>
                   node \in {"END", "RAISED"} /\ cstate.should_search_docs
            /\ node = "RAISED" <=> propagated # NoneStr)
    /\ (wf = "chat") ~> (node = "END" \/ propagated # NoneStr)

\* both flags were true: the run fetched the context, generated and ended
C15_Witness ==
    /\ wf = "chat" /\ node = "END"
    /\ cstate.should_search_docs /\ cstate.should_search_web
    /\ trace = <<"analyze", "fetch_context", "generate">>
    /\ cstate.response = <<"r","e","p","l","y">>

-----------------------------------------------------------------------------
(* Two chat requests side by side: the same query, history and collaborator
   answers, and analyses that agree on should_search_docs *)

\* what the collaborators answer to the two runs: the search results or the
\* place where Retrieval raises, and the Gateway's response or its exception
PairAnswers ==
    { [results |-> r, search_fails |-> f, search_msg |-> m,
       response |-> p, gateway_msg |-> g] :
          r \in SearchResults, f \in {"none", "service", "search"},
          m \in ExceptionMessages, p \in ChatResponses,
          g \in {NoneStr} \cup ExceptionMessages }

\* workflow.ainvoke(initial_state) of the two requests
PairStart ==
    /\ pair = <<>>
    /\ \E q \in ChatQueries, h \in ChatHistories, ans \in PairAnswers :
          LET run == [cstate |-> InitialChatState(q, h), node |-> "analyze",
                      trace |-> <<>>, calls |-> [c \in WfCollaborators |-> 0],
                      gateway_input |-> <<>>, propagated |-> NoneStr,
                      answers |-> ans]
          IN  pair' = <<run, run>>
    /\ UNCHANGED <<agentVars, wfVars, runs, frames, registry, built, threads, handed,
                   routeVars>>

\* node analyze of one run, followed by the conditional edge
Analyzed(run, a) ==
    LET st == ApplyUpdate(run.cstate, analyze_query(run.cstate, a))
    IN  [run EXCEPT !.cstate = st,
                    !.node = ChatEdges(route_query(st)),
                    !.trace = Append(@, "analyze"),
                    !.calls = [@ EXCEPT !["gateway"] = @ + 1],
                    !.gateway_input = <<WfMessage("human", AnalysisPrompt(run.cstate))>>]

\* both runs analyse the query; the two analyses give the same
\* should_search_docs and any should_search_web
PairAnalyze ==
    /\ pair # <<>>
    /\ pair[1].node = "analyze" /\ pair[2].node = "analyze"
    /\ \E a1 \in AnalysisResponses, a2 \in AnalysisResponses :
          /\ AnalysisFlags(pair[1].cstate, a1).docs = AnalysisFlags(pair[2].cstate, a2).docs
          /\ pair' = <<Analyzed(pair[1], a1), Analyzed(pair[2], a2)>>
    /\ UNCHANGED <<agentVars, wfVars, runs, frames, registry, built, threads, handed,
                   routeVars>>

\* node fetch_context of one run, followed by the edge to generate
Fetched(run) ==
    LET ans == run.answers
        context == IF ans.search_fails = "none" THEN ContextOf(ans.results)
                   ELSE <<"Error fetching documents: ">> \o ans.search_msg
    IN  [run EXCEPT !.cstate = ApplyUpdate(run.cstate,
                                   fetch_document_context(run.cstate, context)),
                    !.node = "generate",
                    !.trace = Append(@, "fetch_context"),
                    !.calls = IF ans.search_fails = "service" THEN @
                              ELSE [@ EXCEPT !["search"] = @ + 1]]

PairFetchContext ==
    /\ pair # <<>>
    /\ \E i \in 1..2 :
          /\ pair[i].node = "fetch_context"
          /\ pair' = [pair EXCEPT ![i] = Fetched(pair[i])]
    /\ UNCHANGED <<agentVars, wfVars, runs, frames, registry, built, threads, handed,
                   routeVars>>

\* node generate of one run, followed by the edge to END, or the Gateway's
\* exception leaving the run
Generated(run) ==
    LET ans == run.answers
        sent == [run EXCEPT !.trace = Append(@, "generate"),
                            !.calls = [@ EXCEPT !["gateway"] = @ + 1],
                            !.gateway_input = GenerateInput(run.cstate)]
    IN  IF ans.gateway_msg # NoneStr
        THEN [sent EXCEPT !.node = "RAISED", !.propagated = ans.gateway_msg]
        ELSE [sent EXCEPT !.cstate = ApplyUpdate(run.cstate,
                                       generate_response(run.cstate, ans.response)),
                          !.node = "END"]

PairGenerate ==
    /\ pair # <<>>
    /\ \E i \in 1..2 :
          /\ pair[i].node = "generate"
          /\ pair' = [pair EXCEPT ![i] = Generated(pair[i])]
    /\ UNCHANGED <<agentVars, wfVars, runs, frames, registry, built, threads, handed,
                   routeVars>>

NextChatPair ==
    \/ PairStart
    \/ PairAnalyze
    \/ PairFetchContext
    \/ PairGenerate

SpecChatPair == Init /\ [][NextChatPair]_vars

\* s is an initial part of t
IsPrefix(s, t) == Len(s) <= Len(t) /\ s = SubSeq(t, 1, Len(s))

\* C14: should_search_web is recorded and has no other effect.  Two chat runs
\* with the same query, history and collaborator answers, whose analyses agree
\* on should_search_docs, enter the same nodes in the same order; after the
\* same number of nodes they are at the same node, have made the same
\* collaborator calls with the same Gateway input, and hold the same context,
\* response and messages, whatever their should_search_web flags are.
C14_WebFlagHasNoEffect ==
    pair # <<>> =>
        LET a == pair[1]
            b == pair[2]
        IN  /\ IsPrefix(a.trace, b.trace) \/ IsPrefix(b.trace, a.trace)
            /\ Len(a.trace) = Len(b.trace) =>
                  /\ a.node = b.node
                  /\ a.calls = b.calls
                  /\ a.gateway_input = b.gateway_input
                  /\ a.propagated = b.propagated
                  /\ a.cstate.should_search_docs = b.cstate.should_search_docs
                  /\ a.cstate.context = b.cstate.context
                  /\ a.cstate.response = b.cstate.response
                  /\ a.cstate.messages = b.cstate.messages

\* one run was routed by the label "search_web", the other by "generate", and
\* both ended with the same response
C14_Witness ==
    /\ pair # <<>>
    /\ pair[1].node = "END" /\ pair[2].node = "END"
    /\ ~pair[1].cstate.should_search_docs
    /\ pair[1].cstate.should_search_web /\ ~pair[2].cstate.should_search_web
    /\ route_query(pair[1].cstate) = "search_web"
    /\ route_query(pair[2].cstate) = "generate"
    /\ pair[1].trace = <<"analyze", "generate">>
    /\ pair[1].cstate.response = <<"r","e","p","l","y">>

-----------------------------------------------------------------------------
(* Concurrent agent requests: coroutines of run_agent on the one
   SimpleAgentService, switching at the await of the Gateway call *)

\* the largest max_iterations of a concurrent request
ConcIterations == 2

\* the query of each request: "q1", "q2"
ConcQuery(r) == IF r = 1 THEN <<"q","1">> ELSE <<"q","2">>

\* what the Gateway may answer to a concurrent request
ConcResponses == {RespPlain, RespCalc, RespWebAnswer}

\* the locals live on the service object, which the requests share
FrameOfService(r) == 1

\* the frame that holds the locals of request r: one per call of run_agent
Frame(r) == r

\* entry of run_agent up to the first await: locals initialised, conversation
\* built, loop condition tested
Entered_run_agent(q, h, n) ==
    LET f == [messages |-> InitialMessages(q, h), tool_usage |-> <<>>,
              iteration |-> 0, current_response |-> <<>>]
    IN  IF f.iteration < n
        THEN [locals |-> [f EXCEPT !.iteration = @ + 1], pc |-> "await_llm",
              result |-> NoResult]
        ELSE [locals |-> f, pc |-> "returned",
              result |-> SuccessResultOf(f.current_response, f.tool_usage)]

\* run_agent from the Gateway's answer e up to the next await or the return:
\* the response is parsed, a registered tool is called and recorded, the loop
\* condition is tested again; an exception goes to the except block
AfterAnswer(f, n, e) ==
    IF e.raises
    THEN [locals |-> f, pc |-> "returned", result |-> ErrorResult(e.text)]
    ELSE LET g == [f EXCEPT !.current_response = e.text]
         IN  IF Dispatches(e.text)
             THEN LET t == [g EXCEPT
                      !.tool_usage = Append(@, ToolRecord(ParsedToolName(e.text),
                                                ParsedToolInput(e.text), e.tool_result)),
                      !.messages = @ \o ToolTurns(e.text, e.tool_result)]
                  IN  IF t.iteration < n
                      THEN [locals |-> [t EXCEPT !.iteration = @ + 1],
                            pc |-> "await_llm", result |-> NoResult]
                      ELSE [locals |-> t, pc |-> "returned",
                            result |-> SuccessResultOf(t.current_response, t.tool_usage)]
             ELSE [locals |-> g, pc |-> "returned",
                   result |-> SuccessResultOf(g.current_response, g.tool_usage)]

\* some other request is suspended at its Gateway call
OthersAwaiting(r) == \E o \in ConcRuns \ {r} : runs[o].pc = "await_llm"

\* a handler awaits agent_service.run_agent(...)
ConcRunAgent ==
    /\ \E r \in ConcRuns, h \in ChatHistories, n \in 0..ConcIterations :
          /\ runs[r].pc = "idle"
          /\ LET x == Entered_run_agent(ConcQuery(r), h, n)
             IN  /\ frames' = [frames EXCEPT ![Frame(r)] = x.locals]
                 /\ runs' = [runs EXCEPT ![r] =
                        [@ EXCEPT !.pc = x.pc, !.query = ConcQuery(r),
                                  !.chat_history = h, !.max_iterations = n,
                                  !.result = x.result,
                                  !.overlapped = OthersAwaiting(r)]]
    /\ UNCHANGED <<agentVars, wfVars, pair, registry, built, threads, handed,
                   routeVars>>

\* the event loop resumes request r with the Gateway's outcome e
Resume(r, e) ==
    LET x == AfterAnswer(frames[Frame(r)], runs[r].max_iterations, e)
    IN  /\ frames' = [frames EXCEPT ![Frame(r)] = x.locals]
        /\ runs' = [runs EXCEPT ![r] =
               [@ EXCEPT !.pc = x.pc, !.result = x.result,
                         !.inbox = Append(@, e),
                         !.overlapped = @ \/ OthersAwaiting(r)]]

\* the Gateway answers a suspended request
ConcGatewayReturn ==
    /\ \E r \in ConcRuns, resp \in ConcResponses, tr \in ToolResults :
          /\ runs[r].pc = "await_llm"
          /\ Resume(r, [raises |-> FALSE, text |-> resp, tool_result |-> tr])
    /\ UNCHANGED <<agentVars, wfVars, pair, registry, built, threads, handed,
                   routeVars>>

\* the Gateway raises in a suspended request
ConcGatewayRaise ==
    /\ \E r \in ConcRuns, msg \in ExceptionMessages :
          /\ runs[r].pc = "await_llm"
          /\ Resume(r, [raises |-> TRUE, text |-> msg, tool_result |-> <<>>])
    /\ UNCHANGED <<agentVars, wfVars, pair, registry, built, threads, handed,
                   routeVars>>

NextConcurrent ==
    \/ ConcRunAgent
    \/ ConcGatewayReturn
    \/ ConcGatewayRaise

SpecConcurrent == Init /\ [][NextConcurrent]_vars

\* run_agent executed alone on the answers of inbox, from the state x
RECURSIVE Alone(_, _, _)
Alone(x, n, inbox) ==
    IF inbox = <<>> \/ x.pc = "returned" THEN x
    ELSE Alone(AfterAnswer(x.locals, n, Head(inbox)), n, Tail(inbox))

\* what request r has when it runs alone against the answers it received
AloneRun(r) ==
    Alone(Entered_run_agent(runs[r].query, runs[r].chat_history,
                            runs[r].max_iterations),
          runs[r].max_iterations, runs[r].inbox)

\* C16: under every interleaving of the concurrent agent requests, the
\* message list and the tool_usage of each request are those the request
\* builds when it runs alone against the Gateway responses and tool results
\* it received, and so are its position and the result it returns.
C16_RunsAreIsolated ==
    \A r \in ConcRuns :
        runs[r].pc # "idle" =>
            /\ frames[r] = AloneRun(r).locals
            /\ runs[r].pc = AloneRun(r).pc
            /\ runs[r].result = AloneRun(r).result

\* both requests were in flight together, each dispatched a tool, and they
\* returned different results
C16_Witness ==
    /\ \A r \in ConcRuns :
          /\ runs[r].pc = "returned" /\ runs[r].overlapped
          /\ runs[r].result.success
          /\ Len(runs[r].result.tool_usage) >= 1
    /\ Len(runs[1].result.tool_usage) # Len(runs[2].result.tool_usage)
    /\ frames[1].messages[Len(InitialMessages(runs[1].query, runs[1].chat_history))]
           = HumanMessage(<<"q","1">>)

-----------------------------------------------------------------------------
(* The lazy accessors: `global x; if x is None: x = X(); return x`, called
   from the event loop and from the executor threads without a lock *)

\* the threads that call each accessor: the workflow steps, which run in
\* executor threads, call get_llm_service and get_vector_store_service; the
\* handlers and the agent loop, on the event loop, call all five
Callers(a) ==
    IF a \in {"get_llm_service", "get_vector_store_service"}
    THEN Threads ELSE {"loop"}

\* `if x is None`: the thread reads the global
AccessorTest ==
    /\ \E t \in Threads, a \in Accessors :
          /\ t \in Callers(a)
          /\ threads[t].pc = "idle"
          /\ threads' = [threads EXCEPT ![t] =
                 [pc |-> IF registry[a] = 0 THEN "construct" ELSE "return",
                  acc |-> a, made |-> 0]]
    /\ UNCHANGED <<registry, built, handed>>
    /\ UNCHANGED <<agentVars, wfVars, pair, runs, frames, routeVars>>

\* `X()`: the constructor runs and yields a new object
AccessorConstruct ==
    /\ \E t \in Threads :
          /\ threads[t].pc = "construct"
          /\ built' = [built EXCEPT ![threads[t].acc] = @ + 1]
          /\ threads' = [threads EXCEPT ![t] =
                 [@ EXCEPT !.pc = "assign", !.made = built[threads[t].acc] + 1]]
    /\ UNCHANGED <<registry, handed>>
    /\ UNCHANGED <<agentVars, wfVars, pair, runs, frames, routeVars>>

\* `x = ...`: the new object is stored in the global
AccessorAssign ==
    /\ \E t \in Threads :
          /\ threads[t].pc = "assign"
          /\ registry' = [registry EXCEPT ![threads[t].acc] = threads[t].made]
          /\ threads' = [threads EXCEPT ![t] = [@ EXCEPT !.pc = "return"]]
    /\ UNCHANGED <<built, handed>>
    /\ UNCHANGED <<agentVars, wfVars, pair, runs, frames, routeVars>>

\* `return x`: the caller receives what the global holds now
AccessorReturn ==
    /\ \E t \in Threads :
          /\ threads[t].pc = "return"
          /\ handed' = [handed EXCEPT ![threads[t].acc] =
                            @ \cup {registry[threads[t].acc]}]
          /\ threads' = [threads EXCEPT ![t] =
                 [pc |-> "idle", acc |-> "none", made |-> 0]]
    /\ UNCHANGED <<registry, built>>
    /\ UNCHANGED <<agentVars, wfVars, pair, runs, frames, routeVars>>

NextAccessors ==
    \/ AccessorTest
    \/ AccessorConstruct
    \/ AccessorAssign
    \/ AccessorReturn

SpecAccessors == Init /\ [][NextAccessors]_vars

\* C17 as stated: under every interleaving of the callers, each lazy accessor
\* constructs its object at most once, and every caller receives the same
\* instance.
C17_ConstructedAtMostOnce ==
    /\ \A a \in Accessors : built[a] <= 1
    /\ \A a \in Accessors : Cardinality(handed[a]) <= 1

-----------------------------------------------------------------------------
(* Properties of the tools and of the conversation *)

\* C18: no registered tool raises to the agent loop.  Every call of tool.func
\* comes back as one more record of tool_usage, with the error text as the
\* observation when the tool's collaborator raised, and the loop goes on to
\* its next test; the only runs that end with success = false are those in
\* which the Gateway raised.
C18_ToolsNeverRaise ==
    /\ [](/\ tool_calls = Len(tool_usage) + (IF pc = "tool" THEN 1 ELSE 0)
          /\ (pc = "returned" /\ ~result.success)
                 => (raised # <<>> /\ gateway_calls = Len(responses) + 1))
    /\ [][pc = "tool" => /\ pc' = "while"
                         /\ Len(tool_usage') = Len(tool_usage) + 1
                         /\ tool_usage'[Len(tool_usage')].tool = tool_name
                         /\ raised' = raised
                         /\ result' = result]_vars

\* the evaluator raised inside Calculator; the error text was recorded, the
\* Gateway was called again and the run succeeded
C18_Witness ==
    /\ pc = "returned" /\ result.success
    /\ gateway_calls >= 2
    /\ Len(result.tool_usage) >= 1
    /\ result.tool_usage[1].tool = <<"C","a","l","c","u","l","a","t","o","r">>
    /\ result.tool_usage[1].observation = <<"E","r","r","o","r"," ","c","a","l","c","u","l","a","t","i","n","g"," ","'","2","+","2","'",":"," ","b","o","o","m">>
    /\ raised = <<>>

\* the text between the fixed prefix and suffix of a "Tool result: ..." turn
ResultInTurn(content) ==
    SubSeq(content, Len(ToolResultPrefix) + 1, Len(content) - Len(ToolResultSuffix))

\* C19: each dispatch of a registered tool whose function returns appends
\* exactly one record to tool_usage (the parsed name and input, the observation)
\* and exactly two turns to the message list: an assistant turn holding the
\* model's tool-request text, then a user turn holding "Tool result: ", the
\* tool result and the instruction to give the final answer.  The earlier
\* turns and records stay in place, unchanged, for the rest of the run, and
\* the loop goes on to its next iteration.
C19_DispatchAppendsRecordAndTurns ==
    /\ [](pc # "idle" =>
            Len(messages) = Len(InitialMessages(query, chat_history))
                                + 2 * Len(tool_usage))
    /\ [][pc = "tool" =>
            LET k == Len(messages)
                u == Len(tool_usage)
            IN  /\ Len(tool_usage') = u + 1
                /\ tool_usage'[u + 1].tool = tool_name
                /\ tool_usage'[u + 1].tool_input = tool_input
                /\ Len(messages') = k + 2
                /\ messages'[k + 1] = AIMessage(current_response)
                /\ messages'[k + 2].role = "human"
                /\ Prefix(messages'[k + 2].content, Len(ToolResultPrefix)) = ToolResultPrefix
                /\ messages'[k + 2].content =
                       ToolResultPrefix \o ResultInTurn(messages'[k + 2].content)
                           \o ToolResultSuffix
                /\ tool_usage'[u + 1].observation =
                       Prefix(ResultInTurn(messages'[k + 2].content), ObservationLimit)
                /\ pc' = "while" /\ iteration' = iteration /\ result' = result]_vars
    /\ [][pc # "idle" => /\ IsPrefix(messages, messages')
                         /\ IsPrefix(tool_usage, tool_usage')
                         /\ (pc # "tool" => /\ messages' = messages
                                            /\ tool_usage' = tool_usage)]_vars

\* two tools were dispatched one after the other: two records, four more turns
C19_Witness ==
    /\ pc = "while"
    /\ Len(tool_usage) = 2
    /\ Len(messages) = Len(InitialMessages(query, chat_history)) + 4
    /\ messages[Len(messages) - 1] = AIMessage(current_response)
    /\ messages[Len(messages) - 3].role = "ai"
    /\ tool_usage[1].tool # tool_usage[2].tool

\* the message a history turn stands for
TurnMessage(m) ==
    [role |-> IF m.role = "user" THEN "human"
              ELSE IF m.role = "assistant" THEN "ai" ELSE m.role,
     content |-> m.content]

\* the first Gateway call of the run is in flight
FirstCallInFlight == pc = "await_llm" /\ gateway_calls = 1

\* C20 as stated: the message list of the first Gateway call is one system
\* message, then every turn of the supplied history in its order, then the
\* user query as the last turn.
C20_FirstCallHoldsEveryTurn ==
    FirstCallInFlight =>
        /\ Len(messages) = Len(chat_history) + 2
        /\ messages[1] = SystemMessage(system_prompt)
        /\ \A i \in DOMAIN chat_history : messages[i + 1] = TurnMessage(chat_history[i])
        /\ messages[Len(messages)] = HumanMessage(query)

\* a turn that _format_chat_history converts
IsKeptTurn(m) == m.role \in {"user", "assistant"}

\* C20 amended: the message list of the first Gateway call is one system
\* message, then the user and assistant turns of the supplied history in
\* their order (a turn with any other role is left out), then the user query
\* as the last turn.
C20_FirstCallHoldsUserAndAssistantTurns ==
    FirstCallInFlight =>
        LET kept == SelectSeq(chat_history, IsKeptTurn)
        IN  /\ Len(messages) = Len(kept) + 2
            /\ messages[1] = SystemMessage(system_prompt)
            /\ \A i \in DOMAIN kept : messages[i + 1] = TurnMessage(kept[i])
            /\ messages[Len(messages)] = HumanMessage(query)

\* the history held a user, a system and an assistant turn; the first call
\* carries four messages
C20_Witness ==
    /\ FirstCallInFlight
    /\ Len(chat_history) = 3
    /\ chat_history[2].role = "system"
    /\ Len(messages) = 4
    /\ messages[2].role = "human" /\ messages[3].role = "ai"

-----------------------------------------------------------------------------
(* Frame of the failing gathering steps *)

\* a collaborator raises inside node n in this step
FailsIn(n) == n \in failed' /\ n \notin failed

\* the error texts search_docs and search_web may record
DocumentSearchErrors == { <<"Document search error: ">> \o msg : msg \in ExceptionMessages }
WebSearchErrors == { <<"Web search error: ">> \o msg : msg \in ExceptionMessages }

\* C21: when the Retrieval collaborator raises inside search_docs, or the web
\* search raises inside search_web, the state after the step differs from the
\* state before it in the error field only, which holds the step's error text:
\* query, messages, documents_found, web_results, calculations, research_plan,
\* final_answer and iterations are unchanged.
C21_FailureChangesErrorOnly ==
    [][ /\ FailsIn("search_docs") =>
            /\ state' = [state EXCEPT !.error = state'.error]
            /\ state'.error \in DocumentSearchErrors
        /\ FailsIn("search_web") =>
            /\ state' = [state EXCEPT !.error = state'.error]
            /\ state'.error \in WebSearchErrors ]_vars

\* the web search raised after the plan and the documents were recorded
C21_Witness ==
    /\ wf = "research" /\ node = "calculate"
    /\ "search_web" \in failed /\ "search_docs" \notin failed
    /\ state.error \in WebSearchErrors
    /\ state.documents_found # <<>>
    /\ state.research_plan # NoneStr
    /\ Len(state.messages) = 3
    /\ state.iterations = 1

-----------------------------------------------------------------------------
(* Fields populated by earlier steps *)

\* C22: throughout a research or chat run no step clears or overwrites what an
\* earlier step populated: query / current_query never changes; research_plan,
\* documents_found, web_results, calculations and context keep their value
\* once set; and messages only grows by appending (the list before a step is a
\* prefix of the list after it, hence of every later one).
C22_PopulatedFieldsKept ==
    [][ /\ wf = "research" =>
            /\ state'.query = state.query
            /\ TruthyStr(state.research_plan) => state'.research_plan = state.research_plan
            /\ TruthySeq(state.documents_found) => state'.documents_found = state.documents_found
            /\ TruthyStr(state.web_results) => state'.web_results = state.web_results
            /\ TruthySeq(state.calculations) => state'.calculations = state.calculations
            /\ IsPrefix(state.messages, state'.messages)
        /\ wf = "chat" =>
            /\ cstate'.current_query = cstate.current_query
            /\ cstate.context # NoneStr => cstate'.context = cstate.context
            /\ IsPrefix(cstate.messages, cstate'.messages) ]_vars

\* every gathering step of a research run populated its field and the answer
\* was synthesized after them
C22_Witness ==
    /\ wf = "research" /\ node = "END"
    /\ TruthyStr(state.research_plan)
    /\ TruthySeq(state.documents_found)
    /\ TruthyStr(state.web_results)
    /\ TruthySeq(state.calculations)
    /\ TruthyStr(state.final_answer)
    /\ Len(state.messages) = 6

-----------------------------------------------------------------------------
(* The conditional research steps without their cue words *)

\* the lower-cased query of the run holds none of the words
LacksCues(words) == \A w \in words : ~Contains(Lower(state.query), w)

\* C23: each of the three conditional research steps is a no-op when the query
\* lacks that step's own cue words, whatever the other steps do: search_docs
\* makes no Retrieval call, search_web no web-search call, calculate no
\* Gateway or evaluator call, and each leaves the state as it received it.
C23_StepWithoutCueIsNoOp ==
    [][ wf = "research" =>
          /\ (node = "search_docs" /\ LacksCues(DocumentCues)) =>
                /\ state' = state
                /\ calls' = calls
          /\ (node = "search_web" /\ LacksCues(RecencyCues)) =>
                /\ state' = state
                /\ calls' = calls
          /\ (node = "calculate" /\ LacksCues(CalculationCues)) =>
                /\ state' = state
                /\ calls' = calls ]_vars

\* "my File": search_docs ran and found documents, search_web and calculate
\* were skipped, and the answer was synthesized
C23_Witness ==
    /\ wf = "research" /\ node = "END"
    /\ state.query = QueryFile
    /\ trace = ResearchPipeline
    /\ TruthySeq(state.documents_found)
    /\ calls["list_documents"] = 1 /\ calls["search"] = 1
    /\ calls["web_search"] = 0 /\ calls["evaluate"] = 0
    /\ calls["gateway"] = 2
    /\ state.web_results = NoneStr /\ state.calculations = <<>>

-----------------------------------------------------------------------------
(* Frame of the generate step of the chat workflow *)

\* a message without its id
Bare(m) == [role |-> m.role, content |-> m.content]

\* the system instruction generate_response builds from the context
ContextInstruction(st) ==
    [role |-> "system",
     content |-> <<"Relevant context:\n">> \o st.context
                     \o <<"\n\nUse this context to answer the query.">>]

\* generate returns in this step
Generates == wf = "chat" /\ node = "generate" /\ node' = "END"

\* C24: the generate step extends messages by exactly two turns, the user
\* query and then the assistant response, in that order; the system
\* instruction carrying the context is part of the list sent to the Gateway
\* (before the query) but is not recorded in the state's messages; context,
\* should_search_docs and should_search_web are left unchanged.
C24_GenerateAppendsTwoTurns ==
    [][ Generates =>
          LET n == Len(cstate.messages)
              new == cstate'.messages
              sent == gateway_input'
          IN  /\ Len(new) = n + 2
              /\ SubSeq(new, 1, n) = cstate.messages
              /\ Bare(new[n + 1]) = [role |-> "human", content |-> cstate.current_query]
              /\ Bare(new[n + 2]) = [role |-> "ai", content |-> cstate'.response]
              /\ cstate'.response \in ChatResponses
              /\ \A i \in 1..Len(new) : new[i].role # "system"
              /\ TruthyStr(cstate.context) =>
                    /\ Len(sent) = n + 2
                    /\ Bare(sent[n + 1]) = ContextInstruction(cstate)
              /\ ~TruthyStr(cstate.context) => Len(sent) = n + 1
              /\ SubSeq(sent, 1, n) = cstate.messages
              /\ Bare(sent[Len(sent)]) = [role |-> "human", content |-> cstate.current_query]
              /\ cstate'.context = cstate.context
              /\ cstate'.should_search_docs = cstate.should_search_docs
              /\ cstate'.should_search_web = cstate.should_search_web
              /\ cstate'.current_query = cstate.current_query ]_vars

\* a chat with a history answered with a fetched context
C24_Witness ==
    /\ wf = "chat" /\ node = "END"
    /\ trace = <<"analyze", "fetch_context", "generate">>
    /\ TruthyStr(cstate.context)
    /\ Len(cstate.messages) = 4
    /\ Len(gateway_input) = 4
    /\ gateway_input[3].role = "system"
    /\ cstate.messages[4].role = "ai"

-----------------------------------------------------------------------------
(* Counts of a successful run_agent return *)

\* the loop ended on a response that was not dispatched: the final answer
EndedOnFinalAnswer == responses # <<>> /\ tool_calls = Len(responses) - 1

\* every response received was dispatched and the loop condition failed
BudgetRanOut == tool_calls = Len(responses) /\ iteration = max_iterations

\* C25: on every run_agent return with success = true and max_iterations = N:
\* len(tool_usage) <= N; the number of Gateway calls is len(tool_usage) + 1
\* when the loop ended on a response treated as the final answer, and is
\* len(tool_usage) = N when the budget ran out; for N = 0 there is no Gateway
\* call, the output is the empty string and tool_usage is empty.
C25_SuccessfulReturnCounts ==
    (pc = "returned" /\ result.success)
    => LET N == max_iterations
           k == Len(result.tool_usage)
       IN  /\ k <= N
           /\ EndedOnFinalAnswer \/ BudgetRanOut
           /\ EndedOnFinalAnswer => gateway_calls = k + 1
           /\ BudgetRanOut => gateway_calls = k /\ k = N
           /\ N = 0 => /\ gateway_calls = 0
                       /\ result.output = <<>>
                       /\ result.tool_usage = <<>>

\* a direct run with a budget of two spent both iterations on tools
C25_Witness ==
    /\ mode = "direct" /\ pc = "returned" /\ result.success
    /\ max_iterations = 2
    /\ BudgetRanOut
    /\ Len(result.tool_usage) = 2
    /\ gateway_calls = 2

-----------------------------------------------------------------------------
(* Tool requests that also hold an ANSWER: marker *)

\* the Gateway answers that are a well-formed request for a registered tool
RegisteredRequests == {r \in GatewayResponses : RequestsRegisteredTool(r)}

\* those of them that also hold an ANSWER: marker
RequestsWithAnswer == {r \in RegisteredRequests : Contains(r, ANSWER_MARK)}

\* the output reported for each Gateway answer when it is the last one
ReportedFor == [r \in GatewayResponses |-> ReportedOutput(r)]

LastResponse == responses[Len(responses)]

\* C28: a response that is a well-formed request for a registered tool is
\* handled as a tool request, also when it holds an ANSWER: marker: the tool
\* is dispatched with the parsed name and input, and the loop stops after it
\* only when the budget is spent (otherwise another Gateway call is made);
\* the reported output is extracted from the last response received, never
\* from an earlier one.
C28_ToolRequestWinsOverAnswer ==
    /\ (responses # <<>> /\ LastResponse \in RegisteredRequests) =>
          /\ tool_calls = Len(responses)
          /\ pc = "tool" => /\ tool_name = ParsedToolName(LastResponse)
                            /\ tool_input = ParsedToolInput(LastResponse)
          /\ (pc \in {"extract", "returned"} /\ raised = <<>>) =>
                /\ iteration = max_iterations
                /\ Len(tool_usage) = Len(responses)
    /\ (pc = "returned" /\ result.success /\ responses # <<>>) =>
          result.output = ReportedFor[LastResponse]

\* "TOOL: WebSearch\nINPUT: ai\nANSWER: ok" was dispatched and the run went on
\* to a second response, which is the output
C28_Witness ==
    /\ pc = "returned" /\ result.success
    /\ responses = <<RespWebAnswer, RespPlain>>
    /\ RespWebAnswer \in RequestsWithAnswer
    /\ Len(result.tool_usage) = 1
    /\ result.tool_usage[1].tool = <<"W","e","b","S","e","a","r","c","h">>
    /\ result.tool_usage[1].tool_input = <<"a","i">>
    /\ result.output = RespPlain
    /\ gateway_calls = 2

-----------------------------------------------------------------------------
(* A research run after search_docs recorded an error *)

\* the nodes a run enters when an error is recorded before the router
ErrorPipeline == <<"plan", "search_docs", "search_web", "calculate">>

DocsFailed == wf = "research" /\ "search_docs" \in failed

\* C26: an error recorded by search_docs does not short-circuit the pipeline:
\* search_web and calculate still execute, and may populate web_results or
\* calculations, before the router ends the run without a synthesis; the
\* error field is never cleared once set; and when search_web fails as well
\* its message replaces the earlier one.
C26_ErrorDoesNotShortCircuit ==
    /\ [](DocsFailed => /\ TruthyStr(state.error)
                        /\ IsPrefix(trace, ErrorPipeline)
                        /\ node = IF Len(trace) < 4 THEN ErrorPipeline[Len(trace) + 1] ELSE "END"
                        /\ state.final_answer = NoneStr)
    /\ DocsFailed ~> (node = "END" /\ trace = ErrorPipeline)
    /\ [][ wf = "research" =>
             /\ TruthyStr(state.error) => TruthyStr(state'.error)
             /\ (DocsFailed /\ FailsIn("search_web")) =>
                   /\ state.error \in DocumentSearchErrors
                   /\ state'.error \in WebSearchErrors
             /\ (DocsFailed /\ ~FailsIn("search_web")) => state'.error = state.error ]_vars

\* search_docs failed, then the web search and the calculation both delivered,
\* and the router ended the run
C26_Witness ==
    /\ wf = "research" /\ node = "END"
    /\ failed = {"search_docs"}
    /\ trace = ErrorPipeline
    /\ state.error \in DocumentSearchErrors
    /\ TruthyStr(state.web_results)
    /\ TruthySeq(state.calculations)
    /\ state.final_answer = NoneStr

-----------------------------------------------------------------------------
(* A failure inside the calculate step *)

CalculateFailed == wf = "research" /\ "calculate" \in failed

\* C27 as stated: a failure of the Gateway extraction call or of the evaluator
\* in calculate leaves the state as it was received with error unset, the
\* router then sends the run to synthesize, and a final_answer is produced.
C27_CalculateFailureAlwaysSynthesizes ==
    /\ [][ FailsIn("calculate") =>
             /\ state' = state
             /\ state'.error = NoneStr
             /\ node' = "synthesize" ]_vars
    /\ CalculateFailed ~> (node = "END" /\ state.final_answer # NoneStr)

\* C27 amended: a failure of the Gateway extraction call or of the evaluator
\* in calculate leaves the state exactly as it was received (the failure is
\* only logged, error is not written).  When no earlier step recorded an error
\* the router sends the run to synthesize and a final_answer is produced unless
\* the Gateway raises in synthesize; when search_docs or search_web recorded
\* one, the router ends the run without a synthesis.
C27_CalculateFailureOnlyLogged ==
    /\ [][ FailsIn("calculate") =>
             /\ state' = state
             /\ state.error = NoneStr => node' = "synthesize"
             /\ state.error # NoneStr => node' = "END" ]_vars
    /\ (CalculateFailed /\ state.error = NoneStr)
          ~> \/ /\ node = "END"
                /\ trace = ResearchPipeline
                /\ state.final_answer # NoneStr
             \/ /\ node = "RAISED"
                /\ "synthesize" \in failed
    /\ [](CalculateFailed /\ state.error # NoneStr => node = "END" /\ state.final_answer = NoneStr)

\* the calculation failed in a run without an earlier error and the answer
\* was synthesized from what the web search delivered
C27_Witness ==
    /\ wf = "research" /\ node = "END"
    /\ failed = {"calculate"}
    /\ state.error = NoneStr
    /\ state.calculations = <<>>
    /\ TruthyStr(state.web_results)
    /\ TruthyStr(state.final_answer)
    /\ trace = ResearchPipeline

-----------------------------------------------------------------------------
(* The SSE route of the agent (app/api/agent_routes.py): event_generator   *)
(* sends its own start event, then consumes run_agent_stream one event at  *)
(* a time; the service's generator advances only while the route awaits    *)
(* its next event.                                                         *)

RouteStartEvent == [event |-> "start", data |-> <<"Agent thinking...">>]

\* only the newest chunk is kept
full_response_last_chunk(full, chunk) == chunk

\* full_response += chunk
full_response_after(full, chunk) == full \o chunk

\* the body of the async for: the locals after the event ev and what is sent
\* to the client for it; an event of any other type (the service's start
\* event) matches no branch
route_event(ev, tools, full) ==
    IF ev.type = "tool_start"
    THEN [tools_used |-> Append(tools, ev.data.tool), full_response |-> full,
          out |-> << [event |-> "tool_start", data |-> ev.data] >>]
    ELSE IF ev.type = "tool_end"
    THEN [tools_used |-> tools, full_response |-> full,
          out |-> << [event |-> "tool_end", data |-> ev.data] >>]
    ELSE IF ev.type = "message"
    THEN [tools_used |-> tools,
          full_response |-> full_response_after(full, ev.data),
          out |-> << [event |-> "message",
                      data |-> [chunk |-> ev.data,
                                full_text |-> full_response_after(full, ev.data)]] >>]
    ELSE IF ev.type = "done"
    THEN [tools_used |-> tools, full_response |-> full,
          out |-> << [event |-> "done",
                      data |-> [tools_used |-> tools, full_response |-> full]] >>]
    ELSE IF ev.type = "error"
    THEN [tools_used |-> tools, full_response |-> full,
          out |-> << [event |-> "error", data |-> ev.data] >>]
    ELSE [tools_used |-> tools, full_response |-> full, out |-> <<>>]

\* POST /api/agent/stream: the generator is started and sends its start event
RouteStart ==
    /\ sse.pc = "idle" /\ mode = "none"
    /\ sse' = [sse EXCEPT !.pc = "started", !.sent = <<RouteStartEvent>>]
    /\ UNCHANGED <<agentVars, wfVars, pair, runs, frames, registry, built, threads,
                   handed, rstream>>

\* get_agent_service() raises while the service is constructed: the except
\* block of the route sends an error event
RouteServiceFails ==
    /\ sse.pc = "started" /\ mode = "none"
    /\ \E msg \in ExceptionMessages :
          sse' = [sse EXCEPT !.pc = "closed",
                             !.sent = Append(@, [event |-> "error", data |-> msg])]
    /\ UNCHANGED <<agentVars, wfVars, pair, runs, frames, registry, built, threads,
                   handed, rstream>>

\* the route awaits the next event of run_agent_stream
RoutePulls == sse.pc = "started" /\ sse.taken = Len(events)

\* one pass of the async for over the event the service has yielded
RouteForward ==
    /\ sse.pc = "started" /\ sse.taken < Len(events)
    /\ LET h == route_event(events[sse.taken + 1], sse.tools_used, sse.full_response)
       IN  sse' = [sse EXCEPT !.taken = @ + 1,
                              !.tools_used = h.tools_used,
                              !.full_response = h.full_response,
                              !.sent = @ \o h.out]
    /\ UNCHANGED <<agentVars, wfVars, pair, runs, frames, registry, built, threads,
                   handed, rstream>>

\* the service's generator is exhausted: the async for ends
RouteClose ==
    /\ sse.pc = "started" /\ spc = "closed" /\ sse.taken = Len(events)
    /\ sse' = [sse EXCEPT !.pc = "closed"]
    /\ UNCHANGED <<agentVars, wfVars, pair, runs, frames, registry, built, threads,
                   handed, rstream>>

NextAgentRoute ==
    \/ RouteStart
    \/ RouteServiceFails
    \/ (RoutePulls /\ RunAgentStream)
    \/ (RoutePulls /\ StreamCallsRunAgent)
    \/ (RoutePulls /\ GatewayCall)
    \/ (RoutePulls /\ LoopExhausted)
    \/ (RoutePulls /\ GatewayReturn)
    \/ (RoutePulls /\ GatewayRaise)
    \/ (RoutePulls /\ ToolReturn)
    \/ (RoutePulls /\ ToolFails)
    \/ (RoutePulls /\ ReturnResult)
    \/ (RoutePulls /\ StreamGetsResult)
    \/ (RoutePulls /\ YieldToolStart)
    \/ (RoutePulls /\ YieldToolEnd)
    \/ (RoutePulls /\ YieldMessage)
    \/ (RoutePulls /\ YieldDone)
    \/ RouteForward
    \/ RouteClose

SpecAgentRoute == Init /\ [][NextAgentRoute]_vars

-----------------------------------------------------------------------------
(* Properties of the agent SSE route *)

\* the events of type t the route has sent
Sent(t) == {i \in DOMAIN sse.sent : sse.sent[i].event = t}

\* the chunks of the message events among evs, concatenated in order
RECURSIVE ChunksOf(_)
ChunksOf(evs) ==
    IF evs = <<>> THEN <<>>
    ELSE LET last == evs[Len(evs)]
         IN  ChunksOf(SubSeq(evs, 1, Len(evs) - 1))
                 \o (IF last.event = "message" THEN last.data.chunk ELSE <<>>)

\* the tools of the tool_start events among evs, in order
StartedTools(evs) ==
    LET starts == SelectSeq(evs, LAMBDA e : e.event = "tool_start")
    IN  [i \in 1..Len(starts) |-> starts[i].data.tool]

LastSent == sse.sent[Len(sse.sent)]

\* C30: for every stream of the agent SSE route exactly one start event is
\* sent, the first one (the service's own start event is not forwarded); the
\* full_text of each message event, checked when it is sent, is the
\* concatenation of all chunks sent so far; and the done event of a completed
\* stream carries as full_response the concatenation of all message chunks,
\* which is the output of the underlying run, and as tools_used the tools of
\* the tool_start events in order.  Events are only ever appended.
C30_RouteAccumulatesStream ==
    /\ [](sse.pc # "idle" =>
            /\ Sent("start") = {1}
            /\ LastSent.event = "message" =>
                  LastSent.data.full_text = ChunksOf(sse.sent)
            /\ LastSent.event = "done" =>
                  /\ Sent("done") = {Len(sse.sent)}
                  /\ LastSent.data.full_response = ChunksOf(sse.sent)
                  /\ LastSent.data.full_response = result.output
                  /\ LastSent.data.tools_used = StartedTools(sse.sent)
                  /\ LastSent.data.tools_used = ToolNames(result.tool_usage)
            /\ (sse.pc = "closed" /\ Sent("error") = {}) => LastSent.event = "done")
    /\ [][IsPrefix(sse.sent, sse.sent')]_vars

\* a completed stream of a run that used two different tools and answered
\* with more than one character
C30_Witness ==
    /\ sse.pc = "closed"
    /\ LastSent.event = "done"
    /\ Len(LastSent.data.tools_used) = 2
    /\ LastSent.data.tools_used[1] # LastSent.data.tools_used[2]
    /\ Len(LastSent.data.full_response) >= 2
    /\ Cardinality(Sent("message")) = Len(result.output)
    /\ Len(events) = Len(sse.sent)

-----------------------------------------------------------------------------
(* The SSE route of the research workflow (app/api/graph_routes.py):       *)
(* event_generator streams one execution of the graph step by step, then   *)
(* invokes the graph again for the result it reports.                      *)

\* research_plan[:200] in a step event
PlanSummaryLimit == 200

\* the "output" of a step event, from the dict the node returned
StepOutput(out) ==
    [research_plan |-> IF TruthyStr(out.research_plan)
                       THEN Prefix(out.research_plan, PlanSummaryLimit)
                       ELSE NoneStr,
     documents_found |-> Len(out.documents_found),
     has_web_results |-> TruthyStr(out.web_results),
     has_calculations |-> TruthySeq(out.calculations),
     has_final_answer |-> TruthyStr(out.final_answer)]

StepEvent(n, out) == [event |-> "step", step |-> n, output |-> StepOutput(out)]

\* the step events sent so far
StepsSent == SelectSeq(rstream.sent, LAMBDA e : e.event = "step")

\* the result reported is the one of the streamed execution
AfterAstreamReuses(st) == [state |-> st, node |-> "END"]

\* after the async for: result = await workflow.ainvoke(initial_state), a new
\* execution of the graph from the initial state of the request
AfterAstream(st) == [state |-> InitialResearchState(st.query), node |-> "plan"]

\* the locals of the request other than the workflow state it is executing
routeFrame == <<agentVars, cstate, pair, runs, frames, registry, built, threads,
                handed, sse>>

\* POST /api/graph/research/stream: the start event is sent and
\* workflow.astream(initial_state) is entered
ResearchStreamStart ==
    /\ wf = "none" /\ rstream.pc = "idle"
    /\ wf' = "research"
    /\ \E q \in ResearchQueries : state' = InitialResearchState(q)
    /\ node' = "plan"
    /\ rstream' = [rstream EXCEPT !.pc = "astream",
                                  !.sent = << [event |-> "start"] >>]
    /\ UNCHANGED <<trace, failed, propagated, calls, gateway_input>>
    /\ UNCHANGED routeFrame

\* the graph runs its next node: during astream only once the route has sent
\* the event of the node before it
GraphAdvances ==
    \/ rstream.pc = "astream" /\ Len(StepsSent) = Len(trace)
    \/ rstream.pc = "ainvoke"

\* one pass of the async for: the step event of the node that just returned
ResearchStreamStepEvent ==
    /\ rstream.pc = "astream" /\ node # "RAISED"
    /\ Len(StepsSent) < Len(trace)
    /\ rstream' = [rstream EXCEPT
                      !.sent = Append(@, StepEvent(trace[Len(trace)], state))]
    /\ UNCHANGED <<wfVars, routeFrame>>

\* astream is exhausted: the route invokes the graph again
ResearchStreamInvokes ==
    /\ rstream.pc = "astream" /\ node = "END"
    /\ Len(StepsSent) = Len(trace)
    /\ rstream' = [rstream EXCEPT
                      !.pc = "ainvoke",
                      !.first = << [state |-> state, trace |-> trace,
                                    calls |-> calls, failed |-> failed] >>]
    /\ state' = AfterAstream(state).state
    /\ node' = AfterAstream(state).node
    /\ trace' = IF node' = "plan" THEN <<>> ELSE trace
    /\ failed' = IF node' = "plan" THEN {} ELSE failed
    /\ UNCHANGED <<wf, propagated, calls, gateway_input>>
    /\ UNCHANGED routeFrame

\* ainvoke has returned: the done event is sent
ResearchStreamDone ==
    /\ rstream.pc = "ainvoke" /\ node = "END"
    /\ rstream' = [rstream EXCEPT
                      !.pc = "closed",
                      !.sent = Append(@, [event |-> "done",
                                          final_answer |-> state.final_answer,
                                          iterations |-> state.iterations])]
    /\ UNCHANGED <<wfVars, routeFrame>>

\* an exception left either execution: the except block sends an error event
ResearchStreamError ==
    /\ rstream.pc \in {"astream", "ainvoke"} /\ node = "RAISED"
    /\ rstream' = [rstream EXCEPT
                      !.pc = "closed",
                      !.sent = Append(@, [event |-> "error", error |-> propagated])]
    /\ UNCHANGED <<wfVars, routeFrame>>

NextResearchStream ==
    \/ ResearchStreamStart
    \/ (GraphAdvances /\ PlanStep)
    \/ (GraphAdvances /\ PlanRaises)
    \/ (GraphAdvances /\ SearchDocsStep)
    \/ (GraphAdvances /\ SearchDocsFails)
    \/ (GraphAdvances /\ SearchWebStep)
    \/ (GraphAdvances /\ SearchWebFails)
    \/ (GraphAdvances /\ CalculateStep)
    \/ (GraphAdvances /\ CalculateFails)
    \/ (GraphAdvances /\ SynthesizeStep)
    \/ (GraphAdvances /\ SynthesizeRaises)
    \/ ResearchStreamStepEvent
    \/ ResearchStreamInvokes
    \/ ResearchStreamDone
    \/ ResearchStreamError

SpecResearchStream == Init /\ [][NextResearchStream]_vars

-----------------------------------------------------------------------------
(* Properties of the research SSE route *)

\* the streamed execution, once it is over
First == rstream.first[1]

\* the Gateway calls of one execution that entered the nodes tr: plan, the
\* expression extraction when the query has a calculation cue, synthesize
GatewayCallsOf(tr) ==
    1 + (IF WantsCalculation(state) THEN 1 ELSE 0)
      + (IF \E i \in DOMAIN tr : tr[i] = "synthesize" THEN 1 ELSE 0)

DoneSent == rstream.pc = "closed" /\ rstream.sent[Len(rstream.sent)].event = "done"

====
